---- MODULE Spec2Model ----
(***************************************************************************)
(* Model of the upload / convert / deploy workflows of RegistryService     *)
(* (DocSpective API) and of the registry tables and blob store they use.   *)
(*                                                                         *)
(* Text values are sequences of one-character strings, so that the file    *)
(* name operations of the code (toLowerCase, endsWith, the extension       *)
(* regex) are computed and not assumed.                                    *)
(***************************************************************************)
EXTENDS Integers, Sequences, FiniteSets, TLC

(***************************************************************************)
(* Bounds of the model.                                                    *)
(***************************************************************************)
NumProcs == 2      \* workflow calls that may be in progress at the same time
MaxOps == 2        \* workflow calls started in one behaviour

MaxCalls == 2      \* authenticated platform calls started in one behaviour
MaxTicks == 2      \* times the clock advances in one behaviour
MaxPatches == 3    \* times one container is patched in one behaviour
MaxWorkflows == 3  \* workflows that use the pool in one behaviour

Procs == 1..NumProcs

(***************************************************************************)
(* JavaScript / SQL values.                                                *)
(***************************************************************************)
\* JS undefined and SQL NULL: one-element sequences whose element is not a
\* character, so they differ from every text value.
Undefined == <<"undefined">>
Null == <<"null">>
EmptyString == <<>>

\* JS truthiness of a text value (falsy: undefined, null, '').
Falsy(v) == v \in {Undefined, Null, EmptyString}
Truthy(v) == ~Falsy(v)

\* a || b
Or(a, b) == IF Truthy(a) THEN a ELSE b

\* node-postgres sends an undefined parameter as NULL.
ToSql(v) == IF v = Undefined THEN Null ELSE v

UpperChars == <<"A","B","C","D","E","F","G","H","I","J","K","L","M",
                "N","O","P","Q","R","S","T","U","V","W","X","Y","Z">>
LowerChars == <<"a","b","c","d","e","f","g","h","i","j","k","l","m",
                "n","o","p","q","r","s","t","u","v","w","x","y","z">>

LowerChar(c) ==
  IF \E i \in 1..26 : UpperChars[i] = c
    THEN LowerChars[CHOOSE i \in 1..26 : UpperChars[i] = c]
    ELSE c

\* String.prototype.toLowerCase
toLowerCase(s) == [i \in 1..Len(s) |-> LowerChar(s[i])]

\* String.prototype.endsWith
endsWith(s, suffix) ==
  /\ Len(suffix) <= Len(s)
  /\ SubSeq(s, Len(s) - Len(suffix) + 1, Len(s)) = suffix

\* String.prototype.trim, for the only use the code makes of it:
\* trim() === ''
WhitespaceChars == {" ", "\t", "\n"}
TrimIsEmpty(s) == \A i \in 1..Len(s) : s[i] \in WhitespaceChars

\* docid.replace(/\.[^/.]+$/, ''): the match is a '.' followed, up to the
\* end of the string, by one or more characters other than '/' and '.'.
ExtMatchAt(s, k) ==
  /\ s[k] = "."
  /\ k < Len(s)
  /\ \A j \in (k+1)..Len(s) : s[j] \notin {"/", "."}

RemoveExtension(s) ==
  IF \E k \in 1..Len(s) : ExtMatchAt(s, k)
    THEN SubSeq(s, 1, (CHOOSE k \in 1..Len(s) : ExtMatchAt(s, k)) - 1)
    ELSE s

DotSuffix == <<".", "d", "o", "t">>
CsvSuffix == <<".", "c", "s", "v">>
DocxSuffix == <<".", "d", "o", "c", "x">>

\* `${originalFileName}.docx`
ConvertedFileName(docid) == RemoveExtension(docid) \o DocxSuffix

(***************************************************************************)
(* The registry tables.                                                    *)
(***************************************************************************)
DescriptiveCols == {"template_type", "system_name", "name", "categories",
                    "data_context", "participant_role", "output_title",
                    "output_file_name", "document_source"}
DerivedCols == {"converted_file_path", "sharedo_pathid", "sharedo_downloadurl"}

\* Columns named in the INSERT and in the DO UPDATE SET list of the upsert.
UpsertCols == DescriptiveCols \cup {"docid", "batch_id"}
TemplateCols == {"id"} \cup UpsertCols \cup DerivedCols

\* Human-readable manifest header of each logical field.
HeaderOf ==
  [template_type |-> "Template Type", system_name |-> "System Name",
   name |-> "Name", categories |-> "Categories",
   data_context |-> "Data Context", participant_role |-> "Participant Role",
   output_title |-> "Output Title", output_file_name |-> "Output File Name",
   document_source |-> "Document Source", docid |-> "DocID"]

\* row[key] of a parsed manifest record: undefined when the column is absent.
Get(row, key) == IF key \in DOMAIN row THEN row[key] ELSE Undefined

\* A batch id that is falsy in JS (no batch).
NoBatch == 0

\* The null that a lookup answers when no row matches, shaped as a row.
NullEntry ==
  [c \in TemplateCols |-> IF c \in {"id", "batch_id"} THEN NoBatch ELSE Null]


(***************************************************************************)
(* Inputs: document names, manifest rows, archives, platform catalogue.    *)
(***************************************************************************)
aDot == <<"a", ".", "d", "o", "t">>
bDOT == <<"b", ".", "D", "O", "T">>
zDot == <<"z", ".", "d", "o", "t">>
mCsv == <<"m", ".", "c", "s", "v">>
MCSV == <<"M", ".", "C", "S", "V">>
xCsvDir == <<"x", ".", "c", "s", "v", "/">>
uCsv == <<"u", ".", "c", "s", "v">>
vCsv == <<"v", ".", "c", "s", "v">>

\* snake_case keys, every required field present, resolvable context
rowA1 ==
  [docid |-> aDot, name |-> <<"A">>, template_type |-> <<"L", "t">>,
   system_name |-> <<"s", "a">>, data_context |-> <<"M", "t">>,
   categories |-> <<"c">>, output_title |-> <<"o">>]
\* human-readable headers, other descriptive values, no data context
rowA2 ==
  ("DocID" :> aDot) @@ ("Name" :> <<"A", "2">>) @@ ("docid" :> EmptyString)
    @@ ("System Name" :> <<"s", "2">>) @@ ("Data Context" :> EmptyString)
\* context that is a derived type on the platform, template type unknown
\* to the platform
rowB == [docid |-> bDOT, name |-> <<"B">>, data_context |-> <<"D", "v">>,
         system_name |-> <<"s", "b">>, template_type |-> <<"n", "t">>]
\* context unknown to the platform, document not in the archive
rowZ == [docid |-> zDot, name |-> <<"Z">>, data_context |-> <<"n", "o">>]
rowNoName == [docid |-> bDOT, name |-> EmptyString, data_context |-> <<"M", "t">>]
rowNoDocid == ("Name" :> <<"C">>) @@ ("DocID" :> EmptyString)

\* File contents: the bytes of a document, or the records and the
\* well-formedness of a manifest as csv-parser reads them.
Bytes(n) == [bytes |-> n, rows |-> <<>>, malformed |-> FALSE]
Manifest(rows) == [bytes |-> 0, rows |-> rows, malformed |-> FALSE]
MalformedManifest == [bytes |-> 0, rows |-> <<>>, malformed |-> TRUE]
NoBytes == Bytes(0)

DocEntry(n, d) == [entryName |-> n, isDirectory |-> FALSE, data |-> d]
DirEntry(n) == [entryName |-> n, isDirectory |-> TRUE, data |-> NoBytes]

Arch1 == <<DocEntry(aDot, Bytes(1)),
           DocEntry(mCsv, Manifest(<<rowA1, rowNoName>>))>>
Arch2 == <<DocEntry(MCSV, Manifest(<<rowA2, rowB, rowZ>>)),
           DocEntry(aDot, Bytes(2)), DocEntry(bDOT, Bytes(1))>>
ArchNoCsv == <<DocEntry(aDot, Bytes(1)), DirEntry(xCsvDir)>>
ArchNoValid == <<DocEntry(mCsv, Manifest(<<rowNoDocid, rowNoName>>))>>
ArchMalformed == <<DocEntry(mCsv, MalformedManifest)>>

IngestInputs == {<<Arch1, uCsv>>, <<Arch2, uCsv>>, <<ArchNoCsv, uCsv>>,
                 <<ArchNoValid, vCsv>>, <<ArchMalformed, vCsv>>}
DocIds == {aDot, bDOT, zDot}
TemplateFolders == {<<"f">>}

\* What the platform answers to the type listings.
TemplateTypes == <<[name |-> <<"l", "t">>, systemName |-> <<"s", "l">>]>>
WorkTypes ==
  <<[name |-> <<"x">>, systemName |-> <<"s", "x">>,
     derivedTypes |-> <<[name |-> <<"d", "v">>, systemName |-> <<"s", "d">>]>>],
    [name |-> <<"m", "t">>, systemName |-> <<"s", "m">>, derivedTypes |-> <<>>]>>

\* What the platform may answer to a document upload.
Descriptor1 == [pathId |-> <<"p", "1">>, downloadUrl |-> <<"u", "1">>]
Descriptor2 == [pathId |-> <<"p", "2">>, downloadUrl |-> <<"u", "2">>]
UploadResults == {<<>>, <<Descriptor1>>, <<Descriptor2, Descriptor1>>}

(***************************************************************************)
(* State.                                                                  *)
(***************************************************************************)
VARIABLES
  templates,        \* table templates: a set of rows
  uploads,          \* table uploads (batches): a set of rows
  nextTemplateId,   \* next value of templates.id
  nextUploadId,     \* next value of uploads.id
  now,              \* NOW() of the database; a tick passes between calls
  storage,          \* blob store: <<bucket, path>> -> bytes
  inflight,         \* document uploads issued by Ingest and not yet answered
  wf,               \* the workflow call each process is executing
  opCount,          \* workflow calls started so far
  lastUpsert,       \* history: parameters of the last upsert applied per docid
  opLog,            \* history: the workflow calls made so far, in order
  \* ShareDoService (the platform client)
  tokenCache,       \* this.tokenCache: the single cache slot
  clock,            \* Date.now(), in milliseconds
  call,             \* the authenticated platform call each process executes
  callCount,        \* platform calls started so far
  nextToken,        \* number of the next token the identity server issues
  granted,          \* history: the successful credential exchanges, in order
  \* the container patcher (addCustomPropertyToDocx)
  zip,              \* the document container: entry name -> content
  original,         \* history: the container before the first patch
  before,           \* history: the container before the last patch
  patchIds,         \* history: the template identifiers patched in, in order
  \* the connection pool of the Registry Store
  checkedOut,       \* clients of the pool that are checked out
  storeCall,        \* per process: the store method it is in, what it holds
  workflowCount,    \* workflows started so far
  \* the context-type lookup of ShareDoService on its own
  listing,          \* the work types the platform listed
  queryName,        \* the name that is looked up
  resolved,         \* what the lookup answered
  \* the route handlers around the services
  servicePools,     \* the pool of each service constructed, open or closed
  handler,          \* the request each process is handling
  requestCount      \* requests received so far

registryVars == <<templates, uploads, nextTemplateId, nextUploadId, now,
                  storage, inflight, wf, opCount, lastUpsert, opLog>>
tokenVars == <<tokenCache, clock, call, callCount, nextToken, granted>>

patchVars == <<zip, original, before, patchIds>>

poolVars == <<checkedOut, storeCall, workflowCount>>

resolveVars == <<listing, queryName, resolved>>

routeVars == <<servicePools, handler, requestCount>>

\* What the workflows of RegistryService leave alone, what the calls of
\* ShareDoService leave alone, what the container patcher leaves alone and
\* what the store methods leave alone.
outsideRegistry == <<tokenVars, patchVars, poolVars, resolveVars, routeVars>>
outsideToken == <<registryVars, patchVars, poolVars, resolveVars, routeVars>>
outsidePatcher == <<registryVars, tokenVars, poolVars, resolveVars, routeVars>>
outsidePool == <<registryVars, tokenVars, patchVars, resolveVars, routeVars>>

vars == <<registryVars, tokenVars, patchVars, poolVars, resolveVars,
    routeVars>>

(***************************************************************************)
(* ShareDoService: the token cache and the frames of platform calls.       *)
(***************************************************************************)
BufferMs == 30000          \* the 30-second buffer of the validity test
MsPerSecond == 1000        \* expires_in is in seconds
TickMs == BufferMs \div 2  \* the clock is observed every half buffer

\* this.tokenCache = null
NullTokenCache ==
  [accessToken |-> Null, expiresAt |-> 0, expiresIn |-> 0, tokenType |-> Null]

\* What getAccessToken has not answered yet.
NoTokenResponse ==
  [access_token |-> Undefined, expires_in |-> 0, token_type |-> Undefined,
   cached |-> FALSE, expires_at |-> 0]

\* No answer of the identity server (status 0).
NoAnswer == [status |-> 0, access_token |-> Undefined]

IdleCall ==
  [pc |-> "idle", callId |-> 0, error |-> "none",
   tokenResponse |-> NoTokenResponse,
   \* history of the call
   answer |-> NoAnswer,  \* what the identity server answered to the call
   exchanges |-> 0,      \* credential exchanges the call issued
   requests |-> 0]       \* authenticated requests the call sent

\* An HTTP response: status and text body.
Response(status, body) == [status |-> status, body |-> body]
NoResponse == Response(0, Undefined)

IdleWf ==
  [op |-> "none", opid |-> 0, pc |-> "idle", error |-> "none",
   errorDocid |-> Undefined, errorStatus |-> 0, errorBody |-> Undefined,
   events |-> <<>>,
   archive |-> <<>>, csvFileName |-> Undefined, docid |-> Undefined,
   templateFolder |-> Undefined,
   documentEntries |-> <<>>, uploadedFiles |-> <<>>,
   csvStoragePath |-> Undefined, batchId |-> NoBatch, csvRows |-> <<>>,
   registryEntries |-> <<>>, template |-> NullEntry,
   originalBuffer |-> NoBytes, convertedBuffer |-> NoBytes,
   convertedDocPath |-> Undefined,
   templateTypeSystemName |-> EmptyString,
   contextTypeSystemName |-> EmptyString,
   modifiedFileBuffer |-> NoBytes,
   shareDoPathId |-> Undefined, shareDoDownloadUrl |-> Undefined,
   templateData |-> <<>>, result |-> <<>>,
   \* history of the call
   faults |-> {},           \* the requests that the environment failed
   startedAt |-> 0,         \* NOW() when the call started
   lookedUp |-> NullEntry,  \* what the lookup of the entry answered
   priorRows |-> <<>>,      \* per upsert, the row of the docid before it
   converterResponse |-> NoResponse,  \* what the converter answered
   uploadResult |-> <<>>,   \* what the platform answered to the upload
   createRequest |-> <<>>,  \* the createTemplate request that was sent
   createResponse |-> NoResponse]  \* what the platform answered to it

\* A process is free when it is not inside a call.
IsFree(p) == wf[p].pc \in {"idle", "done", "failed"}

\* A call is taken by the first free process (processes are
\* interchangeable request slots).
CanStart(p) ==
  /\ IsFree(p)
  /\ \A q \in Procs : q < p => ~IsFree(q)
  /\ opCount < MaxOps

Started(op) ==
  [IdleWf EXCEPT !.op = op, !.opid = opCount + 1, !.startedAt = now + 1]

\* What is left of a call once it has returned or thrown: its arguments,
\* what it looked up, and the history of the requests it issued. The other
\* locals are gone with the stack frame.
Ended(w) ==
  [IdleWf EXCEPT !.op = w.op, !.opid = w.opid, !.events = w.events,
                 !.archive = w.archive, !.csvFileName = w.csvFileName,
                 !.docid = w.docid, !.templateFolder = w.templateFolder,
                 !.faults = w.faults,
                 !.startedAt = w.startedAt, !.lookedUp = w.lookedUp,
                 !.priorRows = w.priorRows,
                 !.converterResponse = w.converterResponse,
                 !.uploadResult = w.uploadResult,
                 !.createRequest = w.createRequest,
                 !.createResponse = w.createResponse,
                 !.templateTypeSystemName = w.templateTypeSystemName,
                 !.contextTypeSystemName = w.contextTypeSystemName]

\* The record of a workflow call: the operation and its arguments.
Called(op, zipEntries, csvFileName, docid) ==
  [op |-> op, archive |-> zipEntries, csvFileName |-> csvFileName,
   docid |-> docid]

\* throw new Error(...) out of the workflow
Failed(w, err) == [Ended(w) EXCEPT !.pc = "failed", !.error = err]

\* return result
Returned(w, result) == [Ended(w) EXCEPT !.pc = "done", !.result = result]

(***************************************************************************)
(* Blob store (Supabase storage).                                          *)
(***************************************************************************)
HasObject(bucket, path) == <<bucket, path>> \in DOMAIN storage

\* upload(path, buffer, {upsert: true})
StorageAfterPut(st, bucket, path, data) ==
  [k \in DOMAIN st \cup {<<bucket, path>>} |->
     IF k = <<bucket, path>> THEN data ELSE st[k]]

(***************************************************************************)
(* Registry store statements.                                              *)
(***************************************************************************)
\* SELECT * FROM templates WHERE docid = $1
RowsByDocId(docid) == {r \in templates : r.docid = docid}

\* Mutant: the WHERE clause is missing.
getRegistryEntriesByDocIdAnyRow(docid) ==
  IF templates = {} THEN NullEntry
  ELSE CHOOSE r \in templates : TRUE

\* result.rows.length > 0 ? result.rows[0] : null
getRegistryEntriesByDocId(docid) ==
  IF RowsByDocId(docid) = {} THEN NullEntry
  ELSE CHOOSE r \in RowsByDocId(docid) : TRUE

\* Mutant: the conflict branch also refreshes the timestamp.
UploadsAfterCreateBatchTouch(tbl, nextId, timestamp, csvFilePath) ==
  IF \E b \in tbl : b.filepath = csvFilePath
    THEN {IF b.filepath = csvFilePath
            THEN [b EXCEPT !.timestamp = timestamp] ELSE b : b \in tbl}
    ELSE tbl \cup {[id |-> nextId, timestamp |-> timestamp,
                    filepath |-> csvFilePath]}

\* Mutant: a plain INSERT, a new batch row for every call.
UploadsAfterCreateBatchInsert(tbl, nextId, timestamp, csvFilePath) ==
  tbl \cup {[id |-> nextId, timestamp |-> timestamp, filepath |-> csvFilePath]}

\* INSERT INTO uploads ... ON CONFLICT (filepath) DO UPDATE SET
\*   filepath = EXCLUDED.filepath RETURNING id
UploadsAfterCreateBatch(tbl, nextId, timestamp, csvFilePath) ==
  IF \E b \in tbl : b.filepath = csvFilePath
    THEN {IF b.filepath = csvFilePath
            THEN [b EXCEPT !.filepath = csvFilePath] ELSE b : b \in tbl}
    ELSE tbl \cup {[id |-> nextId, timestamp |-> timestamp,
                    filepath |-> csvFilePath]}

createBatch(tbl, nextId, timestamp, csvFilePath) ==
  (CHOOSE b \in UploadsAfterCreateBatch(tbl, nextId, timestamp, csvFilePath) :
     b.filepath = csvFilePath).id

\* Mutant: the batch id is left out of the parameter list.
UpsertValuesNoBatch(template, batchId) ==
  [c \in UpsertCols |->
     IF c = "batch_id" THEN NoBatch ELSE ToSql(template[c])]

\* The parameter list of the upsert statement.
UpsertValues(template, batchId) ==
  [c \in UpsertCols |->
     IF c = "batch_id"
       THEN (IF template.batch_id = NoBatch THEN batchId ELSE template.batch_id)
       ELSE ToSql(template[c])]

\* Mutant: on conflict the row is replaced whole (delete and insert), which
\* resets the columns the statement does not name.
TemplatesAfterUpsertReplace(tbl, nextId, template, batchId) ==
  LET v == UpsertValues(template, batchId) IN
  IF \E r \in tbl : r.docid = v.docid
    THEN {IF r.docid = v.docid
            THEN [c \in TemplateCols |->
                    IF c = "id" THEN r.id
                    ELSE IF c \in UpsertCols THEN v[c]
                    ELSE Null]
            ELSE r : r \in tbl}
    ELSE tbl \cup {[c \in TemplateCols |->
                      IF c = "id" THEN nextId
                      ELSE IF c \in UpsertCols THEN v[c]
                      ELSE Null]}

\* Mutant: on conflict a NULL parameter keeps the stored value (merge).
TemplatesAfterUpsertMerge(tbl, nextId, template, batchId) ==
  LET v == UpsertValues(template, batchId) IN
  IF \E r \in tbl : r.docid = v.docid
    THEN {IF r.docid = v.docid
            THEN [c \in TemplateCols |->
                    IF c \in UpsertCols /\ (c = "batch_id" \/ v[c] # Null)
                      THEN v[c] ELSE r[c]]
            ELSE r : r \in tbl}
    ELSE tbl \cup {[c \in TemplateCols |->
                      IF c = "id" THEN nextId
                      ELSE IF c \in UpsertCols THEN v[c]
                      ELSE Null]}

\* Mutant: on conflict the platform columns of the row are cleared.
TemplatesAfterUpsertUndeploy(tbl, nextId, template, batchId) ==
  LET v == UpsertValues(template, batchId) IN
  IF \E r \in tbl : r.docid = v.docid
    THEN {IF r.docid = v.docid
            THEN [c \in TemplateCols |->
                    IF c \in UpsertCols THEN v[c]
                    ELSE IF c \in {"sharedo_pathid", "sharedo_downloadurl"} THEN Null
                    ELSE r[c]]
            ELSE r : r \in tbl}
    ELSE tbl \cup {[c \in TemplateCols |->
                      IF c = "id" THEN nextId
                      ELSE IF c \in UpsertCols THEN v[c]
                      ELSE Null]}

\* INSERT INTO templates (...) VALUES (...) ON CONFLICT (docid) DO UPDATE
\* SET <every inserted column> = EXCLUDED.<column>
TemplatesAfterUpsert(tbl, nextId, template, batchId) ==
  LET v == UpsertValues(template, batchId) IN
  IF \E r \in tbl : r.docid = v.docid
    THEN {IF r.docid = v.docid
            THEN [c \in TemplateCols |-> IF c \in UpsertCols THEN v[c] ELSE r[c]]
            ELSE r : r \in tbl}
    ELSE tbl \cup {[c \in TemplateCols |->
                      IF c = "id" THEN nextId
                      ELSE IF c \in UpsertCols THEN v[c]
                      ELSE Null]}

\* RETURNING *
upsertRegistryEntry(tbl, nextId, template, batchId) ==
  CHOOSE r \in TemplatesAfterUpsert(tbl, nextId, template, batchId) :
    r.docid = ToSql(template.docid)

\* Mutant: the two parameters are bound in the wrong order.
updateConvertedFilePathSwapped(tbl, docid, convertedfilepath) ==
  {IF r.docid = convertedfilepath
     THEN [r EXCEPT !.converted_file_path = docid]
     ELSE r : r \in tbl}

\* Mutant: the path is appended to the one the row has.
updateConvertedFilePathAppend(tbl, docid, convertedfilepath) ==
  {IF r.docid = docid
     THEN [r EXCEPT !.converted_file_path =
             IF Truthy(@) THEN @ \o convertedfilepath ELSE convertedfilepath]
     ELSE r : r \in tbl}

\* UPDATE templates SET converted_file_path = $1 WHERE docid = $2
updateConvertedFilePath(tbl, docid, convertedfilepath) ==
  {IF r.docid = docid
     THEN [r EXCEPT !.converted_file_path = convertedfilepath]
     ELSE r : r \in tbl}

\* Mutant: the two identifiers are bound in the wrong order.
updateShareDoDetailsSwapped(tbl, docid, shareDoPathId, shareDoDownloadUrl) ==
  {IF r.docid = docid
     THEN [r EXCEPT !.sharedo_pathid = shareDoDownloadUrl,
                    !.sharedo_downloadurl = shareDoPathId]
     ELSE r : r \in tbl}

\* UPDATE templates SET sharedo_pathid = $1, sharedo_downloadurl = $2
\* WHERE docid = $3
updateShareDoDetails(tbl, docid, shareDoPathId, shareDoDownloadUrl) ==
  {IF r.docid = docid
     THEN [r EXCEPT !.sharedo_pathid = shareDoPathId,
                    !.sharedo_downloadurl = shareDoDownloadUrl]
     ELSE r : r \in tbl}


(***************************************************************************)
(* Ingest: RegistryService.upload                                          *)
(***************************************************************************)
IsDocumentEntry(entry) ==
  ~entry.isDirectory /\ endsWith(toLowerCase(entry.entryName), DotSuffix)

\* Mutant: the name is not lowercased before the test.
IsCsvEntryCaseSensitive(entry) ==
  ~entry.isDirectory /\ endsWith(entry.entryName, CsvSuffix)

IsCsvEntry(entry) ==
  ~entry.isDirectory /\ endsWith(toLowerCase(entry.entryName), CsvSuffix)

\* zipEntries.filter(...)
documentEntries(zipEntries) == SelectSeq(zipEntries, IsDocumentEntry)

\* zipEntries.find(...): the first match
HasCsvEntry(zipEntries) == \E i \in 1..Len(zipEntries) : IsCsvEntry(zipEntries[i])
csvEntry(zipEntries) == Head(SelectSeq(zipEntries, IsCsvEntry))

\* The RegistryEntry built from one manifest record.
RegistryEntryOf(row, batchId) ==
  [c \in TemplateCols \ {"id"} |->
     IF c = "batch_id" THEN batchId
     ELSE IF c \in DerivedCols THEN EmptyString
     ELSE Or(Get(row, c), Get(row, HeaderOf[c]))]

\* Mutant: || in place of &&.
HasRequiredFieldsEither(entry) == Truthy(entry.docid) \/ Truthy(entry.name)

\* if (registryEntry.docid && registryEntry.name)
HasRequiredFields(entry) == Truthy(entry.docid) /\ Truthy(entry.name)

\* The rows pushed to csvRows, in manifest order.
RECURSIVE csvRowsOf(_, _)
csvRowsOf(rows, batchId) ==
  IF rows = <<>> THEN <<>>
  ELSE LET entry == RegistryEntryOf(Head(rows), batchId)
           rest == csvRowsOf(Tail(rows), batchId)
       IN IF HasRequiredFields(entry) THEN <<entry>> \o rest ELSE rest

\* upload(): unzip, classify, and issue every document upload.
StartIngest(p, zipEntries, csvFileName) ==
  LET docs == documentEntries(zipEntries)
      w == [Started("ingest") EXCEPT !.archive = zipEntries,
                                     !.csvFileName = csvFileName,
                                     !.documentEntries = docs]
  IN
  /\ CanStart(p)
  /\ opCount' = opCount + 1
  /\ now' = now + 1
  /\ IF ~HasCsvEntry(zipEntries)
       THEN /\ wf' = [wf EXCEPT ![p] = Failed(w, "MissingManifestError")]
            /\ inflight' = inflight
       ELSE /\ wf' = [wf EXCEPT ![p] =
                 [w EXCEPT !.pc = "awaitUploads",
                           !.uploadedFiles = [i \in 1..Len(docs) |-> Undefined],
                           !.events = [i \in 1..Len(docs) |-> "putUploads"]]]
            /\ inflight' = inflight \cup
                 {[proc |-> p, opid |-> opCount + 1, idx |-> i,
                   path |-> docs[i].entryName, data |-> docs[i].data] :
                    i \in 1..Len(docs)}
  /\ opLog' = Append(opLog, Called("ingest", zipEntries, csvFileName, Undefined))
  /\ UNCHANGED outsideRegistry
  /\ UNCHANGED <<templates, uploads, nextTemplateId, nextUploadId,
                 storage, lastUpsert>>

\* Mutant: Promise.allSettled, a failed upload does not reject the join.
SaveFileAnsweredSettled(u, ok) ==
  LET waiting == wf[u.proc].opid = u.opid /\ wf[u.proc].pc = "awaitUploads" IN
  /\ u \in inflight
  /\ inflight' = inflight \ {u}
  /\ storage' = IF ok THEN StorageAfterPut(storage, "uploads", u.path, u.data)
                ELSE storage
  /\ wf' = IF ~waiting THEN wf
           ELSE IF ok THEN [wf EXCEPT ![u.proc].uploadedFiles[u.idx] = u.path]
           ELSE [wf EXCEPT ![u.proc].faults = @ \cup {"putUploads"}]
  /\ UNCHANGED <<outsideRegistry, opLog>>
  /\ UNCHANGED <<templates, uploads, nextTemplateId, nextUploadId, now,
                 opCount, lastUpsert>>

\* The blob store answers one of the document uploads of the fan-out.
\* Promise.all rejects on the first failure; uploads already issued are
\* still carried out.
SaveFileAnswered(u, ok) ==
  LET waiting == wf[u.proc].opid = u.opid /\ wf[u.proc].pc = "awaitUploads" IN
  /\ u \in inflight
  /\ inflight' = inflight \ {u}
  /\ storage' = IF ok THEN StorageAfterPut(storage, "uploads", u.path, u.data)
                ELSE storage
  /\ wf' = IF ~waiting THEN wf
           ELSE IF ok THEN [wf EXCEPT ![u.proc].uploadedFiles[u.idx] = u.path]
           ELSE [wf EXCEPT ![u.proc] =
                   Failed([@ EXCEPT !.faults = @ \cup {"putUploads"}],
                          "StorageError")]
  /\ UNCHANGED <<outsideRegistry, opLog>>
  /\ UNCHANGED <<templates, uploads, nextTemplateId, nextUploadId, now,
                 opCount, lastUpsert>>

\* Mutant: the document uploads are not awaited before the manifest upload.
IngestSaveCsvEarly(p, ok) ==
  LET w == [wf[p] EXCEPT !.events = Append(@, "putUploads"),
                            !.faults = IF ok THEN @ ELSE @ \cup {"putUploads"}] IN
  /\ wf[p].pc = "awaitUploads"
  /\ IF ok
       THEN /\ storage' = StorageAfterPut(storage, "uploads", w.csvFileName,
                                          csvEntry(w.archive).data)
            /\ wf' = [wf EXCEPT ![p] =
                 [w EXCEPT !.pc = "createBatch",
                           !.csvStoragePath = w.csvFileName]]
       ELSE /\ storage' = storage
            /\ wf' = [wf EXCEPT ![p] = Failed(w, "StorageError")]
  /\ UNCHANGED <<outsideRegistry, opLog>>
  /\ UNCHANGED <<templates, uploads, nextTemplateId, nextUploadId, now,
                 inflight, opCount, lastUpsert>>

\* Mutant: the answer of the manifest upload is not looked at.
IngestSaveCsvUnchecked(p, ok) ==
  LET w == [wf[p] EXCEPT !.events = Append(@, "putUploads"),
                            !.faults = IF ok THEN @ ELSE @ \cup {"putUploads"}] IN
  /\ wf[p].pc = "awaitUploads"
  /\ \A u \in inflight : ~(u.proc = p /\ u.opid = wf[p].opid)
  /\ storage' = IF ok THEN StorageAfterPut(storage, "uploads", w.csvFileName,
                                          csvEntry(w.archive).data)
                ELSE storage
  /\ wf' = [wf EXCEPT ![p] =
       [w EXCEPT !.pc = "createBatch", !.csvStoragePath = w.csvFileName]]
  /\ UNCHANGED <<outsideRegistry, opLog>>
  /\ UNCHANGED <<templates, uploads, nextTemplateId, nextUploadId, now,
                 inflight, opCount, lastUpsert>>

\* After Promise.all: saveFile('uploads', csvFileName, csvBuffer)
IngestSaveCsv(p, ok) ==
  LET w == [wf[p] EXCEPT !.events = Append(@, "putUploads"),
                            !.faults = IF ok THEN @ ELSE @ \cup {"putUploads"}] IN
  /\ wf[p].pc = "awaitUploads"
  /\ \A u \in inflight : ~(u.proc = p /\ u.opid = wf[p].opid)
  /\ IF ok
       THEN /\ storage' = StorageAfterPut(storage, "uploads", w.csvFileName,
                                          csvEntry(w.archive).data)
            /\ wf' = [wf EXCEPT ![p] =
                 [w EXCEPT !.pc = "createBatch",
                           !.csvStoragePath = w.csvFileName]]
       ELSE /\ storage' = storage
            /\ wf' = [wf EXCEPT ![p] = Failed(w, "StorageError")]
  /\ UNCHANGED <<outsideRegistry, opLog>>
  /\ UNCHANGED <<templates, uploads, nextTemplateId, nextUploadId, now,
                 inflight, opCount, lastUpsert>>

\* createBatch(csvStoragePath)
IngestCreateBatch(p, ok) ==
  LET w == [wf[p] EXCEPT !.events = Append(@, "createBatch"),
                            !.faults = IF ok THEN @ ELSE @ \cup {"createBatch"}]
      after == UploadsAfterCreateBatch(uploads, nextUploadId, now,
                                       w.csvStoragePath)
  IN
  /\ wf[p].pc = "createBatch"
  /\ IF ok
       THEN /\ uploads' = after
            /\ nextUploadId' = IF Cardinality(after) > Cardinality(uploads)
                                 THEN nextUploadId + 1 ELSE nextUploadId
            /\ wf' = [wf EXCEPT ![p] =
                 [w EXCEPT !.pc = "parse",
                           !.batchId = createBatch(uploads, nextUploadId, now,
                                                   w.csvStoragePath)]]
       ELSE /\ UNCHANGED <<uploads, nextUploadId>>
            /\ wf' = [wf EXCEPT ![p] = Failed(w, "DatabaseError")]
  /\ UNCHANGED <<outsideRegistry, opLog>>
  /\ UNCHANGED <<templates, nextTemplateId, now, storage, inflight, opCount,
                 lastUpsert>>

\* Parse the manifest and keep the rows that have the required fields.
IngestParse(p) ==
  LET w == wf[p]
      csv == csvEntry(w.archive).data
      rows == csvRowsOf(csv.rows, w.batchId)
  IN
  /\ wf[p].pc = "parse"
  /\ wf' = [wf EXCEPT ![p] =
       IF csv.malformed THEN Failed(w, "ManifestParseError")
       ELSE IF Len(rows) = 0
         THEN Failed([w EXCEPT !.csvRows = rows], "NoValidEntriesError")
       ELSE [w EXCEPT !.csvRows = rows, !.pc = "upsert"]]
  /\ UNCHANGED <<outsideRegistry, opLog>>
  /\ UNCHANGED <<templates, uploads, nextTemplateId, nextUploadId, now,
                 storage, inflight, opCount, lastUpsert>>

\* Mutant: a failed upsert is caught inside the loop and the loop goes on
\* with the next row.
IngestUpsertSwallow(p, ok) ==
  LET w == [wf[p] EXCEPT !.events = Append(@, "upsert"),
                            !.faults = IF ok THEN @ ELSE @ \cup {"upsert"}]
      row == w.csvRows[Len(w.registryEntries) + 1]
      after == IF ok THEN TemplatesAfterUpsert(templates, nextTemplateId, row,
                                               w.batchId)
               ELSE templates
      entry == IF ok THEN upsertRegistryEntry(templates, nextTemplateId, row,
                                              w.batchId)
               ELSE NullEntry
      entries == Append(w.registryEntries, entry)
      v == [w EXCEPT !.registryEntries = entries,
                     !.priorRows = Append(@, getRegistryEntriesByDocId(
                                               ToSql(row.docid)))]
  IN
  /\ wf[p].pc = "upsert"
  /\ templates' = after
  /\ nextTemplateId' = IF Cardinality(after) > Cardinality(templates)
                         THEN nextTemplateId + 1 ELSE nextTemplateId
  /\ lastUpsert' =
       IF ok THEN [d \in DOMAIN lastUpsert \cup {ToSql(row.docid)} |->
                     IF d = ToSql(row.docid) THEN UpsertValues(row, w.batchId)
                     ELSE lastUpsert[d]]
       ELSE lastUpsert
  /\ wf' = [wf EXCEPT ![p] =
       IF Len(entries) < Len(w.csvRows) THEN v
       ELSE Returned(v, [batchId |-> w.batchId,
                         uploadedFiles |-> w.uploadedFiles,
                         registryEntries |-> entries,
                         csvFile |-> [fileName |-> w.csvFileName,
                                      storagePath |-> w.csvStoragePath]])]
  /\ UNCHANGED <<outsideRegistry, opLog>>
  /\ UNCHANGED <<uploads, nextUploadId, now, storage, inflight, opCount>>

\* One iteration of: for (const row of csvRows) await upsertRegistryEntry(...)
IngestUpsert(p, ok) ==
  LET w == [wf[p] EXCEPT !.events = Append(@, "upsert"),
                            !.faults = IF ok THEN @ ELSE @ \cup {"upsert"}]
      row == w.csvRows[Len(w.registryEntries) + 1]
      after == TemplatesAfterUpsert(templates, nextTemplateId, row, w.batchId)
      entry == upsertRegistryEntry(templates, nextTemplateId, row, w.batchId)
      entries == Append(w.registryEntries, entry)
  IN
  /\ wf[p].pc = "upsert"
  /\ IF ok
       THEN /\ templates' = after
            /\ nextTemplateId' = IF Cardinality(after) > Cardinality(templates)
                                   THEN nextTemplateId + 1 ELSE nextTemplateId
            /\ lastUpsert' =
                 [d \in DOMAIN lastUpsert \cup {ToSql(row.docid)} |->
                    IF d = ToSql(row.docid) THEN UpsertValues(row, w.batchId)
                    ELSE lastUpsert[d]]
            /\ wf' = [wf EXCEPT ![p] =
                 LET v == [w EXCEPT
                            !.registryEntries = entries,
                            !.priorRows =
                               Append(@, getRegistryEntriesByDocId(
                                           ToSql(row.docid)))]
                 IN IF Len(entries) < Len(w.csvRows) THEN v
                    ELSE Returned(v,
                           [batchId |-> w.batchId,
                            uploadedFiles |-> w.uploadedFiles,
                            registryEntries |-> entries,
                            csvFile |-> [fileName |-> w.csvFileName,
                                         storagePath |-> w.csvStoragePath]])]
       ELSE /\ UNCHANGED <<templates, nextTemplateId, lastUpsert>>
            /\ wf' = [wf EXCEPT ![p] =
                 [Failed(w, "PersistenceError") EXCEPT !.errorDocid = row.docid]]
  /\ UNCHANGED <<outsideRegistry, opLog>>
  /\ UNCHANGED <<uploads, nextUploadId, now, storage, inflight, opCount>>

(***************************************************************************)
(* Convert: RegistryService.convertDocument                                *)
(***************************************************************************)
\* What the external converter returns for a document.
Converted(buffer) == Bytes(buffer.bytes + 10)

\* convertDocument(docid): look the entry up.
StartConvert(p, docid, ok) ==
  LET registryEntry == getRegistryEntriesByDocId(docid)
      w == [Started("convert") EXCEPT
              !.docid = docid, !.events = <<"lookup">>,
              !.faults = IF ok THEN {} ELSE {"lookup"},
              !.lookedUp = IF ok THEN registryEntry ELSE NullEntry]
  IN
  /\ CanStart(p)
  /\ opCount' = opCount + 1
  /\ now' = now + 1
  /\ wf' = [wf EXCEPT ![p] =
       IF ~ok THEN Failed(w, "DatabaseError")
       ELSE IF registryEntry = NullEntry THEN Failed(w, "NotFoundError")
       ELSE [w EXCEPT !.pc = "retrieve", !.template = registryEntry]]
  /\ opLog' = Append(opLog, Called("convert", <<>>, Undefined, docid))
  /\ UNCHANGED outsideRegistry
  /\ UNCHANGED <<templates, uploads, nextTemplateId, nextUploadId,
                 storage, inflight, lastUpsert>>

\* retrieveFile('uploads', docid)
ConvertRetrieve(p, ok) ==
  LET w == [wf[p] EXCEPT !.events = Append(@, "getUploads"),
                            !.faults = IF ok THEN @ ELSE @ \cup {"getUploads"}] IN
  /\ wf[p].pc = "retrieve"
  /\ wf' = [wf EXCEPT ![p] =
       IF ok /\ HasObject("uploads", w.docid)
         THEN [w EXCEPT !.pc = "convert",
                        !.originalBuffer = storage[<<"uploads", w.docid>>]]
         ELSE Failed(w, "StorageError")]
  /\ UNCHANGED <<outsideRegistry, opLog>>
  /\ UNCHANGED <<templates, uploads, nextTemplateId, nextUploadId, now,
                 storage, inflight, opCount, lastUpsert>>

\* Mutant: doConversion without the response.ok test.
ConvertDoConversionUnchecked(p, response) ==
  LET ok == response.status \in 200..299
      w == [wf[p] EXCEPT !.events = Append(@, "convert"),
                            !.faults = IF ok THEN @ ELSE @ \cup {"convert"},
                            !.converterResponse = response] IN
  /\ wf[p].pc = "convert"
  /\ wf' = [wf EXCEPT ![p] =
       [w EXCEPT !.pc = "save",
                 !.convertedBuffer = Converted(w.originalBuffer)]]
  /\ UNCHANGED <<outsideRegistry, opLog>>
  /\ UNCHANGED <<templates, uploads, nextTemplateId, nextUploadId, now,
                 storage, inflight, opCount, lastUpsert>>

\* Mutant: a timed-out conversion is tried again.
ConvertDoConversionRetry(p, response) ==
  LET ok == response.status \in 200..299
      w == [wf[p] EXCEPT !.events = Append(@, "convert"),
                            !.faults = IF ok THEN @ ELSE @ \cup {"convert"},
                            !.converterResponse = response] IN
  /\ wf[p].pc = "convert"
  /\ wf' = [wf EXCEPT ![p] =
       IF ok
         THEN [w EXCEPT !.pc = "save",
                        !.convertedBuffer = Converted(w.originalBuffer)]
       ELSE IF response.status = 408
         THEN w
       ELSE [Failed(w, "ConversionError") EXCEPT
               !.errorStatus = response.status,
               !.errorBody = response.body]]
  /\ UNCHANGED <<outsideRegistry, opLog>>
  /\ UNCHANGED <<templates, uploads, nextTemplateId, nextUploadId, now,
                 storage, inflight, opCount, lastUpsert>>

\* doConversion(originalBuffer, docid): response.ok is a status in 200..299;
\* the message thrown for 408 is fixed, the message thrown for any other
\* status carries response.status and the response text.
ConvertDoConversion(p, response) ==
  LET ok == response.status \in 200..299
      w == [wf[p] EXCEPT !.events = Append(@, "convert"),
                            !.faults = IF ok THEN @ ELSE @ \cup {"convert"},
                            !.converterResponse = response] IN
  /\ wf[p].pc = "convert"
  /\ wf' = [wf EXCEPT ![p] =
       IF ok
         THEN [w EXCEPT !.pc = "save",
                        !.convertedBuffer = Converted(w.originalBuffer)]
       ELSE IF response.status = 408
         THEN Failed(w, "ConversionTimeoutError")
       ELSE [Failed(w, "ConversionError") EXCEPT
               !.errorStatus = response.status,
               !.errorBody = response.body]]
  /\ UNCHANGED <<outsideRegistry, opLog>>
  /\ UNCHANGED <<templates, uploads, nextTemplateId, nextUploadId, now,
                 storage, inflight, opCount, lastUpsert>>

\* saveFile('conversions', convertedFileName, convertedBuffer)
ConvertSave(p, ok) ==
  LET w == [wf[p] EXCEPT !.events = Append(@, "putConversions"),
                            !.faults = IF ok THEN @ ELSE @ \cup {"putConversions"}]
      convertedFileName == ConvertedFileName(w.docid)
  IN
  /\ wf[p].pc = "save"
  /\ IF ok
       THEN /\ storage' = StorageAfterPut(storage, "conversions",
                                          convertedFileName, w.convertedBuffer)
            /\ wf' = [wf EXCEPT ![p] =
                 [w EXCEPT !.pc = "update",
                           !.convertedDocPath = convertedFileName]]
       ELSE /\ storage' = storage
            /\ wf' = [wf EXCEPT ![p] = Failed(w, "StorageError")]
  /\ UNCHANGED <<outsideRegistry, opLog>>
  /\ UNCHANGED <<templates, uploads, nextTemplateId, nextUploadId, now,
                 inflight, opCount, lastUpsert>>

\* updateConvertedFilePath(docid, convertedDocPath), then return
ConvertUpdate(p, ok) ==
  LET w == [wf[p] EXCEPT !.events = Append(@, "updateConvertedPath"),
                            !.faults = IF ok THEN @ ELSE @ \cup {"updateConvertedPath"}] IN
  /\ wf[p].pc = "update"
  /\ IF ok
       THEN /\ templates' = updateConvertedFilePath(templates, w.docid,
                                                    w.convertedDocPath)
            /\ wf' = [wf EXCEPT ![p] =
                 Returned(w, [docid |-> w.docid,
                              convertedFilePath |-> w.convertedDocPath])]
       ELSE /\ templates' = templates
            /\ wf' = [wf EXCEPT ![p] = Failed(w, "DatabaseError")]
  /\ UNCHANGED <<outsideRegistry, opLog>>
  /\ UNCHANGED <<uploads, nextTemplateId, nextUploadId, now, storage,
                 inflight, opCount, lastUpsert>>

(***************************************************************************)
(* Deploy: RegistryService.deployToShareDo                                 *)
(***************************************************************************)
\* type.name === n || type.name?.toLowerCase() === n.toLowerCase()
NameMatches(type, n) ==
  type.name = n \/ toLowerCase(type.name) = toLowerCase(n)

\* Array.prototype.find on a list of types: the systemName of the first
\* match, null when there is none.
FindSystemName(types, n) ==
  IF \E i \in 1..Len(types) : NameMatches(types[i], n)
    THEN types[CHOOSE i \in 1..Len(types) :
                 /\ NameMatches(types[i], n)
                 /\ \A j \in 1..(i-1) : ~NameMatches(types[j], n)].systemName
    ELSE Null

\* ShareDoService.getTemplateTypeSystemName; a failed listing is caught
\* and answered with null.
getTemplateTypeSystemName(templateTypeName, listingOk) ==
  IF listingOk THEN FindSystemName(TemplateTypes, templateTypeName) ELSE Null

\* The derived types of all work types, in list order; a work type whose
\* derivedTypes is not an array contributes none.
RECURSIVE DerivedTypesOf(_)
DerivedTypesOf(workTypes) ==
  IF workTypes = <<>> THEN <<>>
  ELSE (IF "derivedTypes" \in DOMAIN Head(workTypes)
          THEN Head(workTypes).derivedTypes
          ELSE <<>>)
         \o DerivedTypesOf(Tail(workTypes))

\* Mutant: the derived types are searched before the work types.
ContextTypeSystemNameInDerivedFirst(workTypes, workTypeName) ==
  IF \E i \in 1..Len(DerivedTypesOf(workTypes)) :
       NameMatches(DerivedTypesOf(workTypes)[i], workTypeName)
    THEN FindSystemName(DerivedTypesOf(workTypes), workTypeName)
    ELSE FindSystemName(workTypes, workTypeName)

\* The body of getContextTypeSystemName on the work types that were listed:
\* the first match of the list, else the first match among the derived
\* types of the work types in list order, else null.
ContextTypeSystemNameIn(workTypes, workTypeName) ==
  IF \E i \in 1..Len(workTypes) : NameMatches(workTypes[i], workTypeName)
    THEN FindSystemName(workTypes, workTypeName)
    ELSE FindSystemName(DerivedTypesOf(workTypes), workTypeName)

\* Mutant: the find predicate accepts every work type.
getContextTypeSystemNameFirst(workTypeName, listingOk) ==
  IF ~listingOk THEN Null ELSE WorkTypes[1].systemName

\* ShareDoService.getContextTypeSystemName; a failed listing is caught and
\* answered with null.
getContextTypeSystemName(workTypeName, listingOk) ==
  IF ~listingOk THEN Null
  ELSE ContextTypeSystemNameIn(WorkTypes, workTypeName)

\* Stand-in for the container patcher: the document with one more property
\* that holds the template identifier.
\* The identifiers that the properties the patcher added to a document hold.
TemplateIdsOf(docxBuffer) ==
  IF "templateIds" \in DOMAIN docxBuffer THEN docxBuffer.templateIds ELSE <<>>

addCustomPropertyToDocx(docxBuffer, templateId) ==
  [bytes |-> docxBuffer.bytes, rows |-> docxBuffer.rows,
   malformed |-> docxBuffer.malformed,
   templateIds |-> Append(TemplateIdsOf(docxBuffer), templateId)]

\* The CreateTemplateRequest built from the registry entry.
TemplateData(w) ==
  [systemName |-> w.template.system_name,
   templateType |-> w.templateTypeSystemName,
   active |-> TRUE,
   title |-> w.template.name,
   description |-> w.template.name,
   tags |-> <<>>, processTags |-> <<>>,
   toRoleRequired |-> FALSE, regardingRoleRequired |-> FALSE,
   toRoles |-> <<>>, regardingRoles |-> <<>>,
   recipientLocationRequired |-> FALSE,
   recipientConfig |-> [recipientLocationRequired |-> FALSE],
   contextTypeSystemName |-> w.contextTypeSystemName,
   formIds |-> <<>>,
   approval |-> [competencySystemNames |-> <<>>],
   deliveryChannels |-> <<>>, refreshOnDelivery |-> FALSE,
   deliveryRefreshTags |-> <<>>,
   defaultFolderId |-> 5006002,
   outputDestinations |-> <<>>,
   pdfOptions |-> [generate |-> FALSE, deleteOriginal |-> FALSE,
                   fileName |-> "[_titleAsFilename].pdf"],
   packDocuments |->
     <<[id |-> Null, type |-> "document",
        outputTitle |-> w.template.output_title,
        outputFileName |-> w.template.output_file_name,
        copies |-> 1, isMandatory |-> TRUE, order |-> 1,
        sources |->
          <<[id |-> Null, filePath |-> w.shareDoPathId, order |-> 1,
             status |-> Null,
             ruleSetSelection |-> [operator |-> "and",
                                   ruleSetSystemNames |-> <<>>]]>>]>>,
   templateRepository |-> "templates",
   displayInMenus |-> TRUE, displayContexts |-> <<>>,
   displayRuleSetSelection |-> [operator |-> "and",
                                ruleSetSystemNames |-> <<>>],
   legacyPhaseRestrictions |-> <<>>,
   contentBlock |-> [availableForTemplateAuthors |-> TRUE,
                     availableForDocumentAuthors |-> TRUE],
   multiPartyTemplateSources |-> <<>>,
   legalForm |-> [outputFileName |-> "[_titleAsFilename].pdf",
                  reference |-> "context.reference", fields |-> <<>>]]

\* The code that follows the template-type lookup: the data_context test.
AfterTemplateType(w) ==
  IF Truthy(w.template.data_context)
    THEN [w EXCEPT !.pc = "contextType"]
    ELSE Failed(w, "ValidationError")

\* Mutant: the converted path test is missing.
AfterContextTypeNoCheck(w) == [w EXCEPT !.pc = "retrieveConverted"]

\* Mutant: an empty converted path falls back to the conventional path
\* of the docid instead of failing.
AfterContextTypeFallback(w) ==
  IF Falsy(w.template.converted_file_path)
       \/ TrimIsEmpty(w.template.converted_file_path)
    THEN [w EXCEPT !.pc = "retrieveConverted",
                   !.template.converted_file_path = ConvertedFileName(w.docid)]
    ELSE [w EXCEPT !.pc = "retrieveConverted"]

\* The code that follows a resolved context type: the converted path test.
AfterContextType(w) ==
  IF Falsy(w.template.converted_file_path)
       \/ TrimIsEmpty(w.template.converted_file_path)
    THEN Failed(w, "NotConvertedError")
    ELSE [w EXCEPT !.pc = "retrieveConverted"]

\* deployToShareDo(docid, templateFolder): look the entry up.
StartDeploy(p, docid, templateFolder, ok) ==
  LET template == getRegistryEntriesByDocId(docid)
      w == [Started("deploy") EXCEPT
              !.docid = docid, !.templateFolder = templateFolder,
              !.events = <<"lookup">>,
              !.faults = IF ok THEN {} ELSE {"lookup"},
              !.lookedUp = IF ok THEN template ELSE NullEntry]
  IN
  /\ CanStart(p)
  /\ opCount' = opCount + 1
  /\ now' = now + 1
  /\ wf' = [wf EXCEPT ![p] =
       IF ~ok THEN Failed(w, "DatabaseError")
       ELSE IF template = NullEntry THEN Failed(w, "NotFoundError")
       ELSE IF Truthy(template.template_type)
         THEN [w EXCEPT !.pc = "templateType", !.template = template]
       ELSE AfterTemplateType([w EXCEPT !.template = template])]
  /\ opLog' = Append(opLog, Called("deploy", <<>>, Undefined, docid))
  /\ UNCHANGED outsideRegistry
  /\ UNCHANGED <<templates, uploads, nextTemplateId, nextUploadId,
                 storage, inflight, lastUpsert>>

\* Mutant: a template type without a match fails the call, as a context
\* type without a match does.
DeployTemplateTypeStrict(p, ok) ==
  LET w == [wf[p] EXCEPT !.events = Append(@, "listTemplateTypes"),
                            !.faults = IF ok THEN @ ELSE @ \cup {"listTemplateTypes"}]
      systemName == getTemplateTypeSystemName(w.template.template_type, ok)
  IN
  /\ wf[p].pc = "templateType"
  /\ wf' = [wf EXCEPT ![p] =
       IF Truthy(systemName)
         THEN AfterTemplateType([w EXCEPT !.templateTypeSystemName = systemName])
         ELSE Failed(w, "ValidationError")]
  /\ UNCHANGED <<outsideRegistry, opLog>>
  /\ UNCHANGED <<templates, uploads, nextTemplateId, nextUploadId, now,
                 storage, inflight, opCount, lastUpsert>>

\* shareDoService.getTemplateTypeSystemName(template.template_type)
DeployTemplateType(p, ok) ==
  LET w == [wf[p] EXCEPT !.events = Append(@, "listTemplateTypes"),
                            !.faults = IF ok THEN @ ELSE @ \cup {"listTemplateTypes"}]
      systemName == getTemplateTypeSystemName(w.template.template_type, ok)
  IN
  /\ wf[p].pc = "templateType"
  /\ wf' = [wf EXCEPT ![p] =
       AfterTemplateType(
         IF Truthy(systemName)
           THEN [w EXCEPT !.templateTypeSystemName = systemName]
           ELSE w)]
  /\ UNCHANGED <<outsideRegistry, opLog>>
  /\ UNCHANGED <<templates, uploads, nextTemplateId, nextUploadId, now,
                 storage, inflight, opCount, lastUpsert>>

\* shareDoService.getContextTypeSystemName(template.data_context)
DeployContextType(p, ok) ==
  LET w == [wf[p] EXCEPT !.events = Append(@, "listWorkTypes"),
                            !.faults = IF ok THEN @ ELSE @ \cup {"listWorkTypes"}]
      systemName == getContextTypeSystemName(w.template.data_context, ok)
  IN
  /\ wf[p].pc = "contextType"
  /\ wf' = [wf EXCEPT ![p] =
       IF Truthy(systemName)
         THEN AfterContextType([w EXCEPT !.contextTypeSystemName = systemName])
         ELSE Failed(w, "ValidationError")]
  /\ UNCHANGED <<outsideRegistry, opLog>>
  /\ UNCHANGED <<templates, uploads, nextTemplateId, nextUploadId, now,
                 storage, inflight, opCount, lastUpsert>>

\* Mutant: the patched container replaces the converted artifact.
DeployRetrieveStoring(p, ok) ==
  LET w == [wf[p] EXCEPT !.events = Append(@, "getConversions"),
                            !.faults = IF ok THEN @ ELSE @ \cup {"getConversions"}]
      path == w.template.converted_file_path
      patched == addCustomPropertyToDocx(storage[<<"conversions", path>>],
                                         w.template.system_name)
  IN
  /\ wf[p].pc = "retrieveConverted"
  /\ IF ok /\ HasObject("conversions", path)
       THEN /\ wf' = [wf EXCEPT ![p] =
                 [w EXCEPT !.pc = "uploadDocument", !.modifiedFileBuffer = patched]]
            /\ storage' = StorageAfterPut(storage, "conversions", path, patched)
       ELSE /\ wf' = [wf EXCEPT ![p] = Failed(w, "StorageError")]
            /\ storage' = storage
  /\ UNCHANGED <<outsideRegistry, opLog>>
  /\ UNCHANGED <<templates, uploads, nextTemplateId, nextUploadId, now,
                 inflight, opCount, lastUpsert>>

\* retrieveFile('conversions', converted_file_path), then patch the container
DeployRetrieve(p, ok) ==
  LET w == [wf[p] EXCEPT !.events = Append(@, "getConversions"),
                            !.faults = IF ok THEN @ ELSE @ \cup {"getConversions"}]
      path == w.template.converted_file_path
  IN
  /\ wf[p].pc = "retrieveConverted"
  /\ wf' = [wf EXCEPT ![p] =
       IF ok /\ HasObject("conversions", path)
         THEN [w EXCEPT !.pc = "uploadDocument",
                        !.modifiedFileBuffer =
                           addCustomPropertyToDocx(
                             storage[<<"conversions", path>>],
                             w.template.system_name)]
         ELSE Failed(w, "StorageError")]
  /\ UNCHANGED <<outsideRegistry, opLog>>
  /\ UNCHANGED <<templates, uploads, nextTemplateId, nextUploadId, now,
                 storage, inflight, opCount, lastUpsert>>

\* Mutant: the last descriptor of the upload result is taken.
DeployUploadLast(p, ok, uploadResult) ==
  LET w == [wf[p] EXCEPT !.events = Append(@, "platformUpload"),
                            !.faults = IF ok THEN @ ELSE @ \cup {"platformUpload"},
                            !.uploadResult = IF ok THEN uploadResult ELSE @] IN
  /\ wf[p].pc = "uploadDocument"
  /\ wf' = [wf EXCEPT ![p] =
       IF ok /\ Len(uploadResult) > 0
         THEN [w EXCEPT !.pc = "updateShareDo",
                        !.shareDoPathId =
                           uploadResult[Len(uploadResult)].pathId,
                        !.shareDoDownloadUrl =
                           uploadResult[Len(uploadResult)].downloadUrl]
         ELSE Failed(w, "UploadError")]
  /\ UNCHANGED <<outsideRegistry, opLog>>
  /\ UNCHANGED <<templates, uploads, nextTemplateId, nextUploadId, now,
                 storage, inflight, opCount, lastUpsert>>

\* Mutant: an empty upload result is not refused; the path id and the URL
\* stay undefined.
DeployUploadLenient(p, ok, uploadResult) ==
  LET w == [wf[p] EXCEPT !.events = Append(@, "platformUpload"),
                            !.faults = IF ok THEN @ ELSE @ \cup {"platformUpload"},
                            !.uploadResult = IF ok THEN uploadResult ELSE @] IN
  /\ wf[p].pc = "uploadDocument"
  /\ wf' = [wf EXCEPT ![p] =
       IF ok /\ Len(uploadResult) > 0
         THEN [w EXCEPT !.pc = "updateShareDo",
                        !.shareDoPathId = uploadResult[1].pathId,
                        !.shareDoDownloadUrl = uploadResult[1].downloadUrl]
       ELSE IF ok THEN [w EXCEPT !.pc = "updateShareDo"]
       ELSE Failed(w, "UploadError")]
  /\ UNCHANGED <<outsideRegistry, opLog>>
  /\ UNCHANGED <<templates, uploads, nextTemplateId, nextUploadId, now,
                 storage, inflight, opCount, lastUpsert>>

\* shareDoService.uploadDocument(...) and the extraction of the first
\* descriptor
DeployUpload(p, ok, uploadResult) ==
  LET w == [wf[p] EXCEPT !.events = Append(@, "platformUpload"),
                            !.faults = IF ok THEN @ ELSE @ \cup {"platformUpload"},
                            !.uploadResult = IF ok THEN uploadResult ELSE @] IN
  /\ wf[p].pc = "uploadDocument"
  /\ wf' = [wf EXCEPT ![p] =
       IF ok /\ Len(uploadResult) > 0
         THEN [w EXCEPT !.pc = "updateShareDo",
                        !.shareDoPathId = uploadResult[1].pathId,
                        !.shareDoDownloadUrl = uploadResult[1].downloadUrl]
         ELSE Failed(w, "UploadError")]
  /\ UNCHANGED <<outsideRegistry, opLog>>
  /\ UNCHANGED <<templates, uploads, nextTemplateId, nextUploadId, now,
                 storage, inflight, opCount, lastUpsert>>

\* updateShareDoDetails(docid, shareDoPathId, shareDoDownloadUrl); a failure
\* is caught and rethrown as 'Failed to upload file to ShareDo'
DeployUpdateShareDo(p, ok) ==
  LET w == [wf[p] EXCEPT !.events = Append(@, "updateShareDo"),
                            !.faults = IF ok THEN @ ELSE @ \cup {"updateShareDo"}] IN
  /\ wf[p].pc = "updateShareDo"
  /\ IF ok
       THEN /\ templates' = updateShareDoDetails(templates, w.docid,
                              w.shareDoPathId, w.shareDoDownloadUrl)
            /\ wf' = [wf EXCEPT ![p] =
                 [w EXCEPT !.pc = "createTemplate",
                           !.templateData = TemplateData(w)]]
       ELSE /\ templates' = templates
            /\ wf' = [wf EXCEPT ![p] = Failed(w, "UploadError")]
  /\ UNCHANGED <<outsideRegistry, opLog>>
  /\ UNCHANGED <<uploads, nextTemplateId, nextUploadId, now, storage,
                 inflight, opCount, lastUpsert>>

\* shareDoService.createTemplate(templateData.systemName, templateData):
\* the parsed body of an answer in 200..299 is returned as it is
DeployCreateTemplate(p, response) ==
  LET ok == response.status \in 200..299
      w == [wf[p] EXCEPT !.events = Append(@, "createTemplate"),
                            !.faults = IF ok THEN @ ELSE @ \cup {"createTemplate"},
                            !.createRequest =
                               [templateSystemName |->
                                  wf[p].templateData.systemName,
                                templateData |-> wf[p].templateData],
                            !.createResponse = response] IN
  /\ wf[p].pc = "createTemplate"
  /\ wf' = [wf EXCEPT ![p] =
       IF ok
         THEN Returned(w, response.body)
         ELSE [Failed(w, "TemplateCreationError") EXCEPT
                 !.errorStatus = response.status,
                 !.errorBody = response.body]]
  /\ UNCHANGED <<outsideRegistry, opLog>>
  /\ UNCHANGED <<templates, uploads, nextTemplateId, nextUploadId, now,
                 storage, inflight, opCount, lastUpsert>>

(***************************************************************************)
(* Initial states: the service starts against an empty database and blob   *)
(* store, or against what an earlier run of the service left there: the    *)
(* ingest of Arch1 under u.csv, that ingest followed by the conversion of  *)
(* a.dot, and the ingest of ArchPair under u.csv followed by the           *)
(* conversion of b.DOT.                                                    *)
(***************************************************************************)
IngestedUploads == UploadsAfterCreateBatch({}, 1, 1, uCsv)
IngestedTemplates ==
  TemplatesAfterUpsert({}, 1, csvRowsOf(csvEntry(Arch1).data.rows, 1)[1], 1)
IngestedStorage ==
  StorageAfterPut(StorageAfterPut(<<>>, "uploads", aDot, Arch1[1].data),
                  "uploads", uCsv, csvEntry(Arch1).data)
IngestedLastUpsert ==
  [d \in {aDot} |->
     UpsertValues(csvRowsOf(csvEntry(Arch1).data.rows, 1)[1], 1)]

\* The archive of an earlier run: a.dot and b.DOT with a manifest that
\* names both; the rows it is ingested as, and the store after that ingest.
ArchPair == <<DocEntry(MCSV, Manifest(<<rowA2, rowB>>)),
              DocEntry(aDot, Bytes(2)), DocEntry(bDOT, Bytes(1))>>
PairRows == csvRowsOf(ArchPair[1].data.rows, 1)
PairTemplates ==
  TemplatesAfterUpsert(TemplatesAfterUpsert({}, 1, PairRows[1], 1),
                       2, PairRows[2], 1)
PairStorage ==
  StorageAfterPut(
    StorageAfterPut(
      StorageAfterPut(<<>>, "uploads", aDot, ArchPair[2].data),
      "uploads", bDOT, ArchPair[3].data),
    "uploads", uCsv, ArchPair[1].data)

InitLocal ==
  /\ inflight = {}
  /\ wf = [p \in Procs |-> IdleWf]
  /\ opCount = 0
  /\ opLog = <<>>

InitEmpty ==
  /\ templates = {}
  /\ uploads = {}
  /\ nextTemplateId = 1
  /\ nextUploadId = 1
  /\ now = 0
  /\ storage = <<>>
  /\ lastUpsert = <<>>
  /\ InitLocal

InitIngested ==
  /\ templates = IngestedTemplates
  /\ uploads = IngestedUploads
  /\ nextTemplateId = 2
  /\ nextUploadId = 2
  /\ now = 1
  /\ storage = IngestedStorage
  /\ lastUpsert = IngestedLastUpsert
  /\ InitLocal

InitConverted ==
  /\ templates = updateConvertedFilePath(IngestedTemplates, aDot,
                                         ConvertedFileName(aDot))
  /\ uploads = IngestedUploads
  /\ nextTemplateId = 2
  /\ nextUploadId = 2
  /\ now = 2
  /\ storage = StorageAfterPut(IngestedStorage, "conversions",
                               ConvertedFileName(aDot),
                               Converted(Arch1[1].data))
  /\ lastUpsert = IngestedLastUpsert
  /\ InitLocal

InitConvertedPair ==
  /\ templates = updateConvertedFilePath(PairTemplates, bDOT,
                                         ConvertedFileName(bDOT))
  /\ uploads = IngestedUploads
  /\ nextTemplateId = 3
  /\ nextUploadId = 2
  /\ now = 2
  /\ storage = StorageAfterPut(PairStorage, "conversions",
                               ConvertedFileName(bDOT),
                               Converted(ArchPair[3].data))
  /\ lastUpsert =
       [d \in {PairRows[i].docid : i \in 1..2} |->
          UpsertValues(PairRows[CHOOSE i \in 1..2 : PairRows[i].docid = d], 1)]
  /\ InitLocal

\* The archive of another earlier run: two documents whose names differ
\* only in the case of the extension, with a manifest that names both; the
\* rows it is ingested as, and the store after that ingest.
aDOT == <<"a", ".", "D", "O", "T">>
rowTwin == [docid |-> aDOT, name |-> <<"T">>, data_context |-> <<"D", "v">>,
            system_name |-> <<"s", "t">>]
ArchTwins == <<DocEntry(MCSV, Manifest(<<rowA2, rowTwin>>)),
               DocEntry(aDot, Bytes(2)), DocEntry(aDOT, Bytes(3))>>
TwinRows == csvRowsOf(ArchTwins[1].data.rows, 1)
TwinTemplates ==
  TemplatesAfterUpsert(TemplatesAfterUpsert({}, 1, TwinRows[1], 1),
                       2, TwinRows[2], 1)
TwinStorage ==
  StorageAfterPut(
    StorageAfterPut(
      StorageAfterPut(<<>>, "uploads", aDot, ArchTwins[2].data),
      "uploads", aDOT, ArchTwins[3].data),
    "uploads", uCsv, ArchTwins[1].data)

\* The ingest of ArchTwins under u.csv followed by the conversion of a.dot.
InitTwins ==
  /\ templates = updateConvertedFilePath(TwinTemplates, aDot,
                                         ConvertedFileName(aDot))
  /\ uploads = IngestedUploads
  /\ nextTemplateId = 3
  /\ nextUploadId = 2
  /\ now = 2
  /\ storage = StorageAfterPut(TwinStorage, "conversions",
                               ConvertedFileName(aDot),
                               Converted(ArchTwins[2].data))
  /\ lastUpsert =
       [d \in {TwinRows[i].docid : i \in 1..2} |->
          UpsertValues(TwinRows[CHOOSE i \in 1..2 : TwinRows[i].docid = d], 1)]
  /\ InitLocal

(***************************************************************************)
(* The container patcher: addCustomPropertyToDocx and its two paths.       *)
(* A container maps entry names to contents.  A content is a sequence of   *)
(* tokens; a token carries its text and, for the two attributes whose      *)
(* digits the code reads back (pid="n" and Id="rIdn"), the number.         *)
(***************************************************************************)

Tok(text) == [t |-> text, n |-> 0]
PidAttr(n) == [t |-> "pid=", n |-> n]
RelIdAttr(n) == [t |-> "Id=rId", n |-> n]

\* The entries the patcher names.
Part ==
  [customXml |-> "docProps/custom.xml",
   contentTypes |-> "[Content_Types].xml",
   rels |-> "_rels/.rels",
   document |-> "word/document.xml"]

\* The markup the patcher writes and looks for.
Xml ==
  [xmlDecl |-> Tok("<?xml?>"),
   newline |-> Tok("\n"),
   indent |-> Tok("    "),
   propertiesOpen |-> Tok("<Properties>"),
   propertiesClose |-> Tok("</Properties>"),
   propertyOpen |-> Tok("<property fmtid="),
   propertyName |-> Tok("name=SharedoTemplateId__0>"),
   valueOpen |-> Tok("<vt:lpwstr>"),
   propertyClose |-> Tok("</vt:lpwstr></property>"),
   typesOpen |-> Tok("<Types>"),
   typesClose |-> Tok("</Types>"),
   defaultTypes |-> Tok("<Default rels/><Default xml/>"),
   customOverride |-> Tok("<Override PartName=/docProps/custom.xml/>"),
   documentOverride |-> Tok("<Override PartName=/word/document.xml/>"),
   coreOverride |-> Tok("<Override PartName=/docProps/core.xml/>"),
   appOverride |-> Tok("<Override PartName=/docProps/app.xml/>"),
   relationshipsOpen |-> Tok("<Relationships>"),
   relationshipsClose |-> Tok("</Relationships>"),
   relationshipOpen |-> Tok("<Relationship"),
   customRelType |-> Tok("Type=custom-properties Target=docProps/custom.xml/>"),
   documentRelType |-> Tok("Type=officeDocument Target=word/document.xml/>"),
   coreRelType |-> Tok("Type=core-properties Target=docProps/core.xml/>"),
   appRelType |-> Tok("Type=extended-properties Target=docProps/app.xml/>")]

\* The text of an identifier, interpolated into a content as it is.
RECURSIVE Interpolate(_)
Interpolate(text) ==
  IF text = <<>> THEN <<>> ELSE <<Tok(Head(text))>> \o Interpolate(Tail(text))

MaxOf(S) == CHOOSE m \in S : \A x \in S : x <= m

\* content.match(/attr="(\d+)"/g): the numbers of every such attribute.
Matches(content, attr) ==
  {content[i].n : i \in {j \in 1..Len(content) : content[j].t = attr}}

\* content.includes(needle), for a needle that one token's text holds.
Includes(content, holders) == \E i \in 1..Len(content) : content[i] \in holders

IndexOf(content, tok) ==
  IF \E i \in 1..Len(content) : content[i] = tok
  THEN CHOOSE i \in 1..Len(content) :
         /\ content[i] = tok
         /\ \A j \in 1..(i - 1) : content[j] # tok
  ELSE 0

\* content.replace(tok, replacement): the first occurrence only, and the
\* content as it was when there is none.
ReplaceFirst(content, tok, replacement) ==
  LET k == IndexOf(content, tok)
  IN IF k = 0 THEN content
     ELSE SubSeq(content, 1, k - 1) \o replacement \o SubSeq(content, k + 1, Len(content))

getEntry(container, name) == name \in DOMAIN container

\* zip.addFile and zip.updateFile: the entry holds the content afterwards.
PutFileAlone(container, name, content) ==
  [n \in {name} |-> content]

PutFile(container, name, content) ==
  [n \in (DOMAIN container) \cup {name} |->
     IF n = name THEN content ELSE container[n]]

NewProperty(pid, templateId) ==
  <<Xml.propertyOpen, PidAttr(pid), Xml.propertyName, Xml.valueOpen>>
    \o Interpolate(templateId) \o <<Xml.propertyClose>>

RelationshipOf(rid, typeTok) == <<Xml.relationshipOpen, RelIdAttr(rid), typeTok>>

FirstPid == 2

NextPidRestart(customXmlContent) == FirstPid

NextPid(customXmlContent) ==
  LET pidMatches == Matches(customXmlContent, "pid=")
  IN IF pidMatches = {} THEN FirstPid ELSE MaxOf(pidMatches) + 1

addCustomPropertyToExistingAfterRoot(container, templateId) ==
  LET customXmlContent == container[Part.customXml]
      newProperty == NewProperty(NextPid(customXmlContent), templateId)
  IN PutFile(container, Part.customXml,
       ReplaceFirst(customXmlContent, Xml.propertiesClose,
         <<Xml.propertiesClose, Xml.newline, Xml.indent>> \o newProperty))

addCustomPropertyToExisting(container, templateId) ==
  LET customXmlContent == container[Part.customXml]
      newProperty == NewProperty(NextPid(customXmlContent), templateId)
  IN PutFile(container, Part.customXml,
       ReplaceFirst(customXmlContent, Xml.propertiesClose,
         <<Xml.indent>> \o newProperty \o <<Xml.newline, Xml.propertiesClose>>))

NewCustomXml(templateId) ==
  <<Xml.xmlDecl, Xml.newline, Xml.propertiesOpen, Xml.newline, Xml.indent>>
    \o NewProperty(FirstPid, templateId) \o <<Xml.newline, Xml.propertiesClose>>

MinimalContentTypes ==
  <<Xml.xmlDecl, Xml.newline, Xml.typesOpen, Xml.newline, Xml.indent, Xml.defaultTypes, Xml.newline,
    Xml.indent, Xml.documentOverride, Xml.newline, Xml.indent, Xml.coreOverride, Xml.newline,
    Xml.indent, Xml.appOverride, Xml.newline, Xml.indent, Xml.customOverride, Xml.newline, Xml.typesClose>>

MinimalRels ==
  <<Xml.xmlDecl, Xml.newline, Xml.relationshipsOpen, Xml.newline, Xml.indent>>
    \o RelationshipOf(1, Xml.documentRelType) \o <<Xml.newline, Xml.indent>>
    \o RelationshipOf(2, Xml.coreRelType) \o <<Xml.newline, Xml.indent>>
    \o RelationshipOf(3, Xml.appRelType) \o <<Xml.newline, Xml.indent>>
    \o RelationshipOf(4, Xml.customRelType) \o <<Xml.newline, Xml.relationshipsClose>>

NextRidFirst(relsContent) == 1

NextRid(relsContent) ==
  LET ridMatches == Matches(relsContent, "Id=rId")
  IN IF ridMatches = {} THEN 1 ELSE MaxOf(ridMatches) + 1

WithContentTypes(container) ==
  IF ~getEntry(container, Part.contentTypes)
  THEN PutFile(container, Part.contentTypes, MinimalContentTypes)
  ELSE LET contentTypesContent == container[Part.contentTypes]
       IN IF ~Includes(contentTypesContent, {Xml.customOverride})
          THEN PutFile(container, Part.contentTypes,
                 ReplaceFirst(contentTypesContent, Xml.typesClose,
                   <<Xml.indent, Xml.customOverride, Xml.newline, Xml.typesClose>>))
          ELSE container

WithRels(container) ==
  IF ~getEntry(container, Part.rels)
  THEN PutFile(container, Part.rels, MinimalRels)
  ELSE LET relsContent == container[Part.rels]
       IN IF ~Includes(relsContent, {Xml.customRelType})
          THEN PutFile(container, Part.rels,
                 ReplaceFirst(relsContent, Xml.relationshipsClose,
                   <<Xml.indent>> \o RelationshipOf(NextRid(relsContent), Xml.customRelType)
                     \o <<Xml.newline, Xml.relationshipsClose>>))
          ELSE container

addCustomPropertyToNew(container, templateId) ==
  WithRels(WithContentTypes(
    PutFile(container, Part.customXml, NewCustomXml(templateId))))

\* addCustomPropertyToDocx on the opened container: the path is chosen by
\* whether the custom-properties part is there.
PatchContainer(container, templateId) ==
  IF getEntry(container, Part.customXml)
  THEN addCustomPropertyToExisting(container, templateId)
  ELSE addCustomPropertyToNew(container, templateId)

\* The containers a behaviour starts from, as a word processor writes them.
DocumentBody == <<Xml.xmlDecl, Tok("<w:document/>")>>

AuthorProperty(pid) ==
  <<Xml.propertyOpen, PidAttr(pid), Tok("name=Author>"), Xml.valueOpen, Tok("v"), Xml.propertyClose>>

CustomXmlOf(pids) ==
  LET RECURSIVE Props(_)
      Props(s) ==
        IF s = <<>> THEN <<>>
        ELSE <<Xml.indent>> \o AuthorProperty(Head(s)) \o <<Xml.newline>> \o Props(Tail(s))
  IN <<Xml.xmlDecl, Xml.newline, Xml.propertiesOpen, Xml.newline>> \o Props(pids) \o <<Xml.propertiesClose>>

ContentTypesOf(overrides) ==
  LET RECURSIVE Lines(_)
      Lines(s) ==
        IF s = <<>> THEN <<>> ELSE <<Xml.indent, Head(s), Xml.newline>> \o Lines(Tail(s))
  IN <<Xml.xmlDecl, Xml.newline, Xml.typesOpen, Xml.newline, Xml.indent, Xml.defaultTypes, Xml.newline>>
       \o Lines(overrides) \o <<Xml.typesClose>>

RelsOf(rels) ==
  LET RECURSIVE Lines(_)
      Lines(s) ==
        IF s = <<>> THEN <<>>
        ELSE <<Xml.indent>> \o RelationshipOf(Head(s)[1], Head(s)[2]) \o <<Xml.newline>>
               \o Lines(Tail(s))
  IN <<Xml.xmlDecl, Xml.newline, Xml.relationshipsOpen, Xml.newline>> \o Lines(rels)
       \o <<Xml.relationshipsClose>>

OnlyDocument == [n \in {Part.document} |-> DocumentBody]

PlainContainer ==
  PutFile(PutFile(OnlyDocument,
    Part.contentTypes, ContentTypesOf(<<Xml.documentOverride, Xml.coreOverride>>)),
    Part.rels, RelsOf(<<<<1, Xml.documentRelType>>, <<2, Xml.coreRelType>>>>))

SparseRelsContainer ==
  PutFile(PlainContainer,
    Part.rels, RelsOf(<<<<7, Xml.coreRelType>>, <<1, Xml.documentRelType>>>>))


\* The custom-properties part was deleted, its registrations were not.
StaleManifestsContainer ==
  PutFile(PutFile(OnlyDocument,
    Part.contentTypes, ContentTypesOf(<<Xml.documentOverride, Xml.customOverride>>)),
    Part.rels, RelsOf(<<<<1, Xml.documentRelType>>, <<2, Xml.customRelType>>>>))

WithCustomXml(pids) ==
  PutFile(StaleManifestsContainer, Part.customXml, CustomXmlOf(pids))

Containers ==
  {OnlyDocument, PlainContainer, SparseRelsContainer, StaleManifestsContainer,
   WithCustomXml(<<>>), WithCustomXml(<<2, 3>>), WithCustomXml(<<5, 2>>)}

PatchTemplateIds == {<<"a">>, <<"b", "1">>, <<"7">>}

\* The container patcher before its first call.
InitPatcher ==
  /\ original \in Containers
  /\ zip = original
  /\ before = original
  /\ patchIds = <<>>

\* Where the patcher is not exercised: one container, never patched.
InitUnpatched ==
  /\ original = PlainContainer
  /\ zip = original
  /\ before = original
  /\ patchIds = <<>>

\* The pool after construction: no client checked out, no method running.
IdleStoreCall ==
  [workflow |-> "none", pc |-> "idle", method |-> "none", rest |-> <<>>,
   held |-> 0, acquired |-> 0, released |-> 0]

\* The context-type lookup before it is called.
NotResolved == <<"pending">>

\* A route handler: what it threw, and the handlers before any request.
Thrown(kind, status, message) == [kind |-> kind, status |-> status, message |-> message]
NotThrown == Thrown("none", 0, EmptyString)

IdleHandler ==
  [route |-> "none", pc |-> "idle", docid |-> Undefined, templateFolder |-> Undefined,
   pool |-> 0, thrown |-> NotThrown, status |-> 0]

InitRoutes ==
  /\ servicePools = <<>>
  /\ handler = [p \in Procs |-> IdleHandler]
  /\ requestCount = 0

\* Where the lookup is not exercised on its own.
InitResolver ==
  /\ listing = <<>>
  /\ queryName = Undefined
  /\ resolved = NotResolved

InitPool ==
  /\ checkedOut = 0
  /\ storeCall = [p \in Procs |-> IdleStoreCall]
  /\ workflowCount = 0

\* The platform client after construction: no token cached, no call made.
InitShareDoService ==
  /\ tokenCache = NullTokenCache
  /\ clock = 0
  /\ call = [p \in Procs |-> IdleCall]
  /\ callCount = 0
  /\ nextToken = 1
  /\ granted = <<>>

Init ==
  /\ InitEmpty \/ InitIngested \/ InitConverted \/ InitConvertedPair
  /\ InitShareDoService
  /\ InitUnpatched
  /\ InitPool /\ InitRoutes /\ InitResolver

(***************************************************************************)
(* Specification.                                                          *)
(***************************************************************************)
ConverterResponses ==
  {Response(200, EmptyString), Response(408, <<"s", "l", "o", "w">>),
   Response(500, <<"b", "o", "o", "m">>), Response(500, EmptyString)}
CreateTemplateResponses ==
  {Response(200, [id |-> <<"t", "1">>]), Response(201, [id |-> <<"t", "2">>]),
   Response(400, <<"b", "a", "d">>), Response(500, EmptyString)}

Next ==
  \/ \E p \in Procs, in \in IngestInputs : StartIngest(p, in[1], in[2])
  \/ \E u \in inflight, ok \in BOOLEAN : SaveFileAnswered(u, ok)
  \/ \E p \in Procs, ok \in BOOLEAN : IngestSaveCsv(p, ok)
  \/ \E p \in Procs, ok \in BOOLEAN : IngestCreateBatch(p, ok)
  \/ \E p \in Procs : IngestParse(p)
  \/ \E p \in Procs, ok \in BOOLEAN : IngestUpsert(p, ok)
  \/ \E p \in Procs, docid \in DocIds, ok \in BOOLEAN : StartConvert(p, docid, ok)
  \/ \E p \in Procs, ok \in BOOLEAN : ConvertRetrieve(p, ok)
  \/ \E p \in Procs, response \in ConverterResponses :
       ConvertDoConversion(p, response)
  \/ \E p \in Procs, ok \in BOOLEAN : ConvertSave(p, ok)
  \/ \E p \in Procs, ok \in BOOLEAN : ConvertUpdate(p, ok)
  \/ \E p \in Procs, docid \in DocIds, f \in TemplateFolders, ok \in BOOLEAN :
       StartDeploy(p, docid, f, ok)
  \/ \E p \in Procs, ok \in BOOLEAN : DeployTemplateType(p, ok)
  \/ \E p \in Procs, ok \in BOOLEAN : DeployContextType(p, ok)
  \/ \E p \in Procs, ok \in BOOLEAN : DeployRetrieve(p, ok)
  \/ \E p \in Procs, ok \in BOOLEAN, r \in UploadResults : DeployUpload(p, ok, r)
  \/ \E p \in Procs, ok \in BOOLEAN : DeployUpdateShareDo(p, ok)
  \/ \E p \in Procs, response \in CreateTemplateResponses :
       DeployCreateTemplate(p, response)

Spec == Init /\ [][Next]_vars

(***************************************************************************)
(* ShareDoService: getAccessToken and the authenticated calls built on it  *)
(* (makeApiCall, uploadDocument, createTemplate).                          *)
(***************************************************************************)
\* What the identity server may answer to a credential exchange.
TokenStatuses == {200, 401}
ExpiresIns == {30, 60}
TokenTypes == {Undefined, <<"m">>}
Bearer == <<"B", "e", "a", "r", "e", "r">>
TokenOf(n) == <<"t", ToString(n)>>
TokenBodies ==
  {[access_token |-> a, expires_in |-> e, token_type |-> t] :
     a \in {TokenOf(nextToken), Undefined, EmptyString},
     e \in ExpiresIns, t \in TokenTypes}

\* Mutant: every answer counts as a success.
ResponseOkAlways(status) == status >= 0

\* response.ok
ResponseOk(status) == status \in 200..299

\* Mutant: the validity test without the buffer.
CacheValidNoBuffer(cache, t) ==
  cache # NullTokenCache /\ t < cache.expiresAt

\* this.tokenCache && Date.now() < (this.tokenCache.expiresAt - 30000)
CacheValid(cache, t) ==
  cache # NullTokenCache /\ t < cache.expiresAt - BufferMs

\* The answer built from the cached token.
CachedResponse(cache) ==
  [access_token |-> cache.accessToken, expires_in |-> cache.expiresIn,
   token_type |-> cache.tokenType, cached |-> TRUE,
   expires_at |-> cache.expiresAt]

\* Mutant: a refresh keeps the expiry of the record it replaces.
CacheRecordKeepExpiry(body, t) ==
  [accessToken |-> body.access_token,
   expiresAt |-> IF tokenCache = NullTokenCache
                   THEN t + body.expires_in * MsPerSecond
                   ELSE tokenCache.expiresAt,
   expiresIn |-> body.expires_in,
   tokenType |-> Or(body.token_type, Bearer)]

\* The cache record built from the body of a successful exchange answered
\* at time t.
CacheRecord(body, t) ==
  [accessToken |-> body.access_token,
   expiresAt |-> t + body.expires_in * MsPerSecond,
   expiresIn |-> body.expires_in,
   tokenType |-> Or(body.token_type, Bearer)]

\* The answer built from the body of a successful exchange.
FreshResponse(body, t) ==
  [access_token |-> body.access_token, expires_in |-> body.expires_in,
   token_type |-> Or(body.token_type, Bearer), cached |-> FALSE,
   expires_at |-> t + body.expires_in * MsPerSecond]

CallIsFree(p) == call[p].pc \in {"idle", "done", "failed"}

CallFailed(w, err) == [w EXCEPT !.pc = "failed", !.error = err]

\* An authenticated call starts with getAccessToken: the cache test, and
\* the request of the credential exchange when the test fails.
StartApiCall(p) ==
  LET w == [IdleCall EXCEPT !.callId = callCount + 1] IN
  /\ CallIsFree(p)
  /\ \A q \in Procs : q < p => ~CallIsFree(q)
  /\ callCount < MaxCalls
  /\ callCount' = callCount + 1
  /\ call' = [call EXCEPT ![p] =
       IF CacheValid(tokenCache, clock)
         THEN [w EXCEPT !.pc = "request",
                        !.tokenResponse = CachedResponse(tokenCache)]
         ELSE [w EXCEPT !.pc = "exchange", !.exchanges = 1]]
  /\ UNCHANGED <<tokenCache, clock, nextToken, granted>>
  /\ UNCHANGED outsideToken

\* The identity server answers the exchange of process p; getAccessToken
\* throws, or writes the cache and returns.
ExchangeAnswered(p, status, body) ==
  LET w == [call[p] EXCEPT
              !.answer = [status |-> status, access_token |-> body.access_token]]
      issued == ResponseOk(status) /\ Truthy(body.access_token)
  IN
  /\ call[p].pc = "exchange"
  /\ IF issued
       THEN /\ tokenCache' = CacheRecord(body, clock)
            /\ granted' = Append(granted, [body |-> body, at |-> clock])
            /\ nextToken' = nextToken + 1
            /\ call' = [call EXCEPT ![p] =
                 [w EXCEPT !.pc = "request",
                           !.tokenResponse = FreshResponse(body, clock)]]
       ELSE /\ call' = [call EXCEPT ![p] = CallFailed(w, "AuthenticationError")]
            /\ UNCHANGED <<tokenCache, granted, nextToken>>
  /\ UNCHANGED <<clock, callCount>>
  /\ UNCHANGED outsideToken

\* fetch(apiUrl, {Authorization: Bearer access_token, ...}) and its answer
ApiRequest(p, ok) ==
  LET w == [call[p] EXCEPT !.requests = @ + 1] IN
  /\ call[p].pc = "request"
  /\ call' = [call EXCEPT ![p] =
       IF ok THEN [w EXCEPT !.pc = "done"] ELSE CallFailed(w, "ApiError")]
  /\ UNCHANGED <<tokenCache, clock, callCount, nextToken, granted>>
  /\ UNCHANGED outsideToken

\* Time passes.
Tick ==
  /\ clock < MaxTicks * TickMs
  /\ clock' = clock + TickMs
  /\ UNCHANGED <<tokenCache, call, callCount, nextToken, granted>>
  /\ UNCHANGED outsideToken

TokenInit ==
  InitEmpty /\ InitShareDoService /\ InitUnpatched /\ InitPool /\ InitRoutes /\ InitResolver

TokenNext ==
  \/ \E p \in Procs : StartApiCall(p)
  \/ \E p \in Procs, status \in TokenStatuses, body \in TokenBodies :
       ExchangeAnswered(p, status, body)
  \/ \E p \in Procs, ok \in BOOLEAN : ApiRequest(p, ok)
  \/ Tick

TokenSpec == TokenInit /\ [][TokenNext]_vars

(***************************************************************************)
(* The container patcher on its own: one container, patched repeatedly     *)
(* with the identifiers the platform returns.                              *)
(***************************************************************************)

\* One call of addCustomPropertyToDocx on the container the last call made.
AddCustomProperty(templateId) ==
  /\ Len(patchIds) < MaxPatches
  /\ before' = zip
  /\ zip' = PatchContainer(zip, templateId)
  /\ patchIds' = Append(patchIds, templateId)
  /\ UNCHANGED original
  /\ UNCHANGED outsidePatcher

PatchInit ==
  InitEmpty /\ InitShareDoService /\ InitPatcher /\ InitPool /\ InitRoutes /\ InitResolver

PatchNext == \E templateId \in PatchTemplateIds : AddCustomProperty(templateId)

PatchSpec == PatchInit /\ [][PatchNext]_vars

(***************************************************************************)
(* The Registry Store and its pool: every method checks a client out,      *)
(* queries inside try, and releases in finally.  A workflow is the         *)
(* sequence of store methods it awaits, with its other awaits in between.  *)
(***************************************************************************)

StoreMethods ==
  {"getRegistryEntries", "getRegistryEntriesByDocId", "createBatch",
   "upsertRegistryEntry", "updateConvertedFilePath", "updateShareDoDetails"}

\* The store methods a workflow awaits, in order.
MethodsOf(workflow) ==
  CASE workflow = "list" -> <<"getRegistryEntries">>
    [] workflow = "ingest" ->
         <<"createBatch", "upsertRegistryEntry", "upsertRegistryEntry">>
    [] workflow = "convert" ->
         <<"getRegistryEntriesByDocId", "updateConvertedFilePath">>
    [] workflow = "deploy" ->
         <<"getRegistryEntriesByDocId", "updateShareDoDetails">>

Workflows == {"list", "ingest", "convert", "deploy"}

\* Mutant: the client is released after the query only, not in finally.
FinallyOnReturn(held, threw) == IF threw THEN held ELSE held - 1

\* finally { client.release() }
Finally(held, threw) == held - 1

StoreCallIsFree(p) == storeCall[p].pc \in {"idle", "done", "failed"}

\* A workflow is called: it runs until its first store method.
StartWorkflow(p, workflow) ==
  /\ StoreCallIsFree(p)
  /\ \A q \in Procs : q < p => ~StoreCallIsFree(q)
  /\ workflowCount < MaxWorkflows
  /\ workflowCount' = workflowCount + 1
  /\ storeCall' = [storeCall EXCEPT ![p] =
       [IdleStoreCall EXCEPT !.workflow = workflow, !.pc = "running",
                             !.rest = MethodsOf(workflow)]]
  /\ UNCHANGED checkedOut
  /\ UNCHANGED outsidePool

\* The workflow calls its next store method, which awaits pool.connect().
CallStoreMethod(p) ==
  /\ storeCall[p].pc = "running"
  /\ storeCall[p].rest # <<>>
  /\ storeCall' = [storeCall EXCEPT ![p] =
       [@ EXCEPT !.pc = "connect", !.method = Head(storeCall[p].rest),
                 !.rest = Tail(@), !.acquired = 0, !.released = 0]]
  /\ UNCHANGED <<checkedOut, workflowCount>>
  /\ UNCHANGED outsidePool

\* pool.connect() answers: a client, or a rejection that the method and the
\* workflow let through.
PoolConnect(p, ok) ==
  /\ storeCall[p].pc = "connect"
  /\ IF ok
       THEN /\ checkedOut' = checkedOut + 1
            /\ storeCall' = [storeCall EXCEPT ![p] =
                 [@ EXCEPT !.pc = "query", !.held = @ + 1, !.acquired = @ + 1]]
       ELSE /\ checkedOut' = checkedOut
            /\ storeCall' = [storeCall EXCEPT ![p] = [@ EXCEPT !.pc = "failed"]]
  /\ UNCHANGED workflowCount
  /\ UNCHANGED outsidePool

\* client.query(...) answers, finally runs, and the method returns to the
\* workflow or throws through it.
QueryAnswered(p, ok) ==
  LET held == Finally(storeCall[p].held, ~ok) IN
  /\ storeCall[p].pc = "query"
  /\ checkedOut' = checkedOut - (storeCall[p].held - held)
  /\ storeCall' = [storeCall EXCEPT ![p] =
       [@ EXCEPT !.pc = IF ok THEN "running" ELSE "failed",
                 !.held = held,
                 !.released = @ + (storeCall[p].held - held)]]
  /\ UNCHANGED workflowCount
  /\ UNCHANGED outsidePool

\* The workflow returns after its last store method.
WorkflowReturns(p) ==
  /\ storeCall[p].pc = "running"
  /\ storeCall[p].rest = <<>>
  /\ storeCall' = [storeCall EXCEPT ![p] = [@ EXCEPT !.pc = "done"]]
  /\ UNCHANGED <<checkedOut, workflowCount>>
  /\ UNCHANGED outsidePool

\* One of the workflow's other awaits (blob store, converter, platform) or
\* one of its tests throws.
WorkflowThrows(p) ==
  /\ storeCall[p].pc = "running"
  /\ storeCall[p].workflow # "list"
  /\ storeCall' = [storeCall EXCEPT ![p] = [@ EXCEPT !.pc = "failed"]]
  /\ UNCHANGED <<checkedOut, workflowCount>>
  /\ UNCHANGED outsidePool

PoolInit ==
  InitEmpty /\ InitShareDoService /\ InitUnpatched /\ InitPool /\ InitRoutes /\ InitResolver

PoolNext ==
  \/ \E p \in Procs, workflow \in Workflows : StartWorkflow(p, workflow)
  \/ \E p \in Procs : CallStoreMethod(p)
  \/ \E p \in Procs, ok \in BOOLEAN : PoolConnect(p, ok)
  \/ \E p \in Procs, ok \in BOOLEAN : QueryAnswered(p, ok)
  \/ \E p \in Procs : WorkflowReturns(p)
  \/ \E p \in Procs : WorkflowThrows(p)

PoolSpec == PoolInit /\ [][PoolNext]_vars

(***************************************************************************)
(* The context-type lookup on its own: a listing of work types, each with  *)
(* derived types that may have derived types of their own, and a name.     *)
(* System names tell the position of a type in the listing.                *)
(***************************************************************************)
MaxWorkTypes == 2    \* work types in a listing
MaxDerived == 2      \* derived types of a work type

SeqsUpTo(S, n) == UNION {[1..k -> S] : k \in 0..n}

TypeNames == {<<"a">>, <<"A">>, <<"b">>}
QueryNames == {<<"a">>, <<"B">>, <<"c">>}

\* Shapes of listings: the names, without the system names.  A work type
\* may come without derivedTypes.
NestedShapes == {<<>>, <<[name |-> <<"a">>]>>}
DerivedShapes == [name : TypeNames, nested : NestedShapes]
WorkTypeShapes ==
  [name : TypeNames, isArray : BOOLEAN,
   derived : SeqsUpTo(DerivedShapes, MaxDerived)]

SystemNameAt(path) == <<"s">> \o [i \in 1..Len(path) |-> ToString(path[i])]

TypeAt(name, path, derivedTypes) ==
  [name |-> name, systemName |-> SystemNameAt(path),
   derivedTypes |-> derivedTypes]

\* The listing of a shape.
ListingOf(shape) ==
  [i \in 1..Len(shape) |->
     IF shape[i].isArray
       THEN TypeAt(shape[i].name, <<i>>,
              [j \in 1..Len(shape[i].derived) |->
                 TypeAt(shape[i].derived[j].name, <<i, j>>,
                   [k \in 1..Len(shape[i].derived[j].nested) |->
                      TypeAt(shape[i].derived[j].nested[k].name,
                             <<i, j, k>>, <<>>)])])
       ELSE [name |-> shape[i].name, systemName |-> SystemNameAt(<<i>>)]]

Listings ==
  {ListingOf(shape) : shape \in SeqsUpTo(WorkTypeShapes, MaxWorkTypes)}

\* getContextTypeSystemName(workTypeName) once getWorkTypes() has answered
ResolveContextType ==
  /\ resolved = NotResolved
  /\ resolved' = ContextTypeSystemNameIn(listing, queryName)
  /\ UNCHANGED <<listing, queryName>>
  /\ UNCHANGED <<registryVars, tokenVars, patchVars, poolVars, routeVars>>

ResolveInit ==
  /\ InitEmpty /\ InitShareDoService /\ InitUnpatched /\ InitPool /\ InitRoutes
  /\ listing \in Listings
  /\ queryName \in QueryNames
  /\ resolved = NotResolved

ResolveNext == ResolveContextType

ResolveSpec == ResolveInit /\ [][ResolveNext]_vars

(***************************************************************************)
(* The route handlers of convert and deploy, for RegistryService           *)
(* (/registry/convert, /registry/deploy) and for DocAnalyserService        *)
(* (/convert, /deploy).  A handler validates the request, constructs its   *)
(* service, which opens a connection pool of its own, awaits the workflow  *)
(* and answers.  The workflow is seen from outside: it returns, or it      *)
(* throws one of the errors its code can throw, with the message the code  *)
(* builds from the docid and from what the platform, the blob store and    *)
(* the database answered.                                                  *)
(***************************************************************************)
MaxRequests == 2   \* requests received in one behaviour

Routes == {"registryConvert", "registryDeploy", "analyserConvert", "analyserDeploy"}
DeployRoutes == {"registryDeploy", "analyserDeploy"}

\* The texts of the error messages, character by character.
ErrorText ==
  [templateWithDocid |->
     <<"T", "e", "m", "p", "l", "a", "t", "e", " ", "w", "i", "t", "h",
       " ", "d", "o", "c", "i", "d", " ", "'">>,
   notFound |->
     <<"'", " ", "n", "o", "t", " ", "f", "o", "u", "n", "d">>,
   bumbacha |->
     <<" ", "-", " ", "B", "U", "M", "B", "A", "C", "H", "A">>,
   contextType |->
     <<"C", "o", "n", "t", "e", "x", "t", " ", "t", "y", "p", "e", " ",
       "\"">>,
   notInWorkTypes |->
     <<"\"", " ", "n", "o", "t", " ", "f", "o", "u", "n", "d", " ", "i",
       "n", " ", "S", "h", "a", "r", "e", "D", "o", " ", "w", "o", "r",
       "k", " ", "t", "y", "p", "e", "s">>,
   contextRequired |->
     <<"T", "e", "m", "p", "l", "a", "t", "e", " ", "d", "a", "t", "a",
       "_", "c", "o", "n", "t", "e", "x", "t", " ", "i", "s", " ", "r",
       "e", "q", "u", "i", "r", "e", "d", " ", "f", "o", "r", " ", "d",
       "e", "p", "l", "o", "y", "m", "e", "n", "t">>,
   notConverted |->
     <<"'", " ", "h", "a", "s", " ", "n", "o", " ", "c", "o", "n", "v",
       "e", "r", "t", "e", "d", " ", "f", "i", "l", "e", " ", "p", "a",
       "t", "h", ".", " ", "P", "l", "e", "a", "s", "e", " ", "c", "o",
       "n", "v", "e", "r", "t", " ", "t", "h", "e", " ", "d", "o", "c",
       "u", "m", "e", "n", "t", " ", "f", "i", "r", "s", "t", ".">>,
   downloadFrom |->
     <<"F", "a", "i", "l", "e", "d", " ", "t", "o", " ", "d", "o", "w",
       "n", "l", "o", "a", "d", " ", "f", "i", "l", "e", " ", "f", "r",
       "o", "m", " ">>,
   colon |->
     <<":", " ">>,
   uploadToShareDo |->
     <<"F", "a", "i", "l", "e", "d", " ", "t", "o", " ", "u", "p", "l",
       "o", "a", "d", " ", "f", "i", "l", "e", " ", "t", "o", " ", "S",
       "h", "a", "r", "e", "D", "o", ":", " ">>,
   uploadFailed |->
     <<"S", "h", "a", "r", "e", "D", "o", " ", "u", "p", "l", "o", "a",
       "d", " ", "f", "a", "i", "l", "e", "d", ":", " ">>,
   noFilePath |->
     <<"U", "p", "l", "o", "a", "d", " ", "s", "u", "c", "c", "e", "e",
       "d", "e", "d", " ", "b", "u", "t", " ", "n", "o", " ", "f", "i",
       "l", "e", " ", "p", "a", "t", "h", " ", "r", "e", "t", "u", "r",
       "n", "e", "d", " ", "f", "r", "o", "m", " ", "S", "h", "a", "r",
       "e", "D", "o", " ", "-", " ", "[", "]">>,
   creationFailed |->
     <<"S", "h", "a", "r", "e", "D", "o", " ", "t", "e", "m", "p", "l",
       "a", "t", "e", " ", "c", "r", "e", "a", "t", "i", "o", "n", " ",
       "f", "a", "i", "l", "e", "d", ":", " ">>,
   authenticationFailed |->
     <<"S", "h", "a", "r", "e", "D", "o", " ", "a", "u", "t", "h", "e",
       "n", "t", "i", "c", "a", "t", "i", "o", "n", " ", "f", "a", "i",
       "l", "e", "d", ":", " ">>,
   dash |->
     <<" ", "-", " ">>,
   conversionTimeout |->
     <<"C", "o", "n", "v", "e", "r", "s", "i", "o", "n", " ", "t", "i",
       "m", "e", "o", "u", "t", " ", "e", "x", "c", "e", "e", "d", "e",
       "d", " ", "-", " ", "f", "i", "l", "e", " ", "m", "a", "y", " ",
       "b", "e", " ", "t", "o", "o", " ", "c", "o", "m", "p", "l", "e",
       "x">>,
   conversionFailed |->
     <<"C", "o", "n", "v", "e", "r", "s", "i", "o", "n", " ", "s", "e",
       "r", "v", "i", "c", "e", " ", "f", "a", "i", "l", "e", "d", ":",
       " ">>,
   badRequest |->
     <<"4", "0", "0", " ", "B", "a", "d", " ", "R", "e", "q", "u", "e",
       "s", "t">>,
   unauthorized |->
     <<"4", "0", "1", " ", "U", "n", "a", "u", "t", "h", "o", "r", "i",
       "z", "e", "d">>,
   serverError |->
     <<"5", "0", "0", " ", "I", "n", "t", "e", "r", "n", "a", "l", " ",
       "S", "e", "r", "v", "e", "r", " ", "E", "r", "r", "o", "r">>,
   objectNotFound |->
     <<"O", "b", "j", "e", "c", "t", " ", "n", "o", "t", " ", "f", "o",
       "u", "n", "d">>,
   connectionRefused |->
     <<"c", "o", "n", "n", "e", "c", "t", " ", "E", "C", "O", "N", "N",
       "R", "E", "F", "U", "S", "E", "D">>,
   conversionsBucket |->
     <<"c", "o", "n", "v", "e", "r", "s", "i", "o", "n", "s", "/">>,
   documentsBucket |->
     <<"d", "o", "c", "u", "m", "e", "n", "t", "s", "/">>,
   n400 |->
     <<"4", "0", "0">>,
   n404 |->
     <<"4", "0", "4">>,
   notFoundNeedle |->
     <<"n", "o", "t", " ", "f", "o", "u", "n", "d">>]

\* String.prototype.includes
includes(text, needle) ==
  \E i \in 1..(Len(text) - Len(needle) + 1) :
    SubSeq(text, i, i + Len(needle) - 1) = needle

\* `${response.status} ${response.statusText}`
StatusLine(status) ==
  CASE status = 400 -> ErrorText.badRequest
    [] status = 401 -> ErrorText.unauthorized
    [] OTHER -> ErrorText.serverError

\* What the stores and the platform may report.
RouteDataContexts == {<<"M", "t">>}
StorageMessages == {ErrorText.objectNotFound}
DatabaseMessages == {ErrorText.connectionRefused}
UploadStatuses == {400, 500}
CreateStatuses == {400, 500}
ExchangeStatuses == {400, 401}
ErrorBodies == {EmptyString, <<"x">>}

\* The errors deployToShareDo(docid, templateFolder) throws, in the order
\* of its steps.
DeployErrors(docid) ==
  {Thrown("lookup", 0, m) : m \in DatabaseMessages}
  \cup {Thrown("noRow", 0, ErrorText.templateWithDocid \o docid \o ErrorText.notFound)}
  \cup {Thrown("contextType", 0,
          ErrorText.contextType \o c \o ErrorText.notInWorkTypes) : c \in RouteDataContexts}
  \cup {Thrown("contextRequired", 0, ErrorText.contextRequired)}
  \cup {Thrown("notConverted", 0,
          ErrorText.templateWithDocid \o docid \o ErrorText.notConverted)}
  \cup {Thrown("download", 0,
          ErrorText.downloadFrom \o ErrorText.conversionsBucket \o ConvertedFileName(docid)
            \o ErrorText.colon \o m) : m \in StorageMessages}
  \cup {Thrown("upload", status,
          ErrorText.uploadToShareDo \o ErrorText.uploadFailed \o StatusLine(status)) :
          status \in UploadStatuses}
  \cup {Thrown("noDescriptor", 0, ErrorText.uploadToShareDo \o ErrorText.noFilePath)}
  \cup {Thrown("updateShareDo", 0, ErrorText.uploadToShareDo \o m) : m \in DatabaseMessages}
  \cup {Thrown("authentication", status,
          ErrorText.authenticationFailed \o StatusLine(status)) : status \in ExchangeStatuses}
  \cup {Thrown("createTemplate", status,
          ErrorText.creationFailed \o StatusLine(status) \o ErrorText.dash \o body) :
          status \in CreateStatuses, body \in ErrorBodies}

\* The errors convertDocument(docid) of RegistryService and
\* convertDocumentWorkflow(docid) of DocAnalyserService throw.
ConvertErrors(route, docid) ==
  {Thrown("lookup", 0, m) : m \in DatabaseMessages}
  \cup {Thrown("noRow", 0,
          ErrorText.templateWithDocid \o docid \o ErrorText.notFound
            \o (IF route = "registryConvert" THEN ErrorText.bumbacha ELSE EmptyString))}
  \cup {Thrown("download", 0,
          ErrorText.downloadFrom \o ErrorText.documentsBucket \o docid
            \o ErrorText.colon \o m) : m \in StorageMessages}
  \cup {Thrown("timeout", 408, ErrorText.conversionTimeout)}
  \cup {Thrown("converter", 500,
          ErrorText.conversionFailed \o StatusLine(500) \o ErrorText.dash \o body) :
          body \in ErrorBodies}

ServiceErrors(route, docid) ==
  IF route \in DeployRoutes THEN DeployErrors(docid) ELSE ConvertErrors(route, docid)

\* The status the catch block of the handler answers with.
StatusOfError(route, message) ==
  IF route \in DeployRoutes
    THEN IF includes(message, ErrorText.n400) THEN 400
         ELSE IF includes(message, ErrorText.notFoundNeedle)
                   \/ includes(message, ErrorText.n404) THEN 404
         ELSE 500
  ELSE IF route = "analyserConvert"
    THEN IF includes(message, ErrorText.notFoundNeedle) THEN 404 ELSE 500
  ELSE 500

\* Whether the handler awaits service.close() after the workflow returned
\* (thrown = FALSE) or threw (thrown = TRUE).
Closes(route, thrown) ==
  CASE route = "registryConvert" -> thrown
    [] route = "registryDeploy" -> TRUE
    [] route = "analyserConvert" -> ~thrown
    [] route = "analyserDeploy" -> FALSE

\* The request body or query string lacks a field the handler tests.
LacksField(route, docid, templateFolder) ==
  CASE route \in DeployRoutes -> Falsy(docid) \/ Falsy(templateFolder)
    [] route = "registryConvert" -> Falsy(docid)
    [] route = "analyserConvert" -> FALSE

RouteDocIds == {aDot, <<"4", "0", "0">>, EmptyString}
RouteFolders == {<<"f">>, EmptyString}

\* The handler runs up to its await of the workflow: a request that lacks
\* a field is answered 400 before any service exists, else the service is
\* constructed and its pool is open.
Receive(p, route, docid, templateFolder) ==
  LET h == [IdleHandler EXCEPT !.route = route, !.docid = docid,
                               !.templateFolder = templateFolder]
  IN
  /\ handler[p].pc # "service"
  /\ requestCount < MaxRequests
  /\ requestCount' = requestCount + 1
  /\ IF LacksField(route, docid, templateFolder)
       THEN /\ handler' = [handler EXCEPT ![p] = [h EXCEPT !.pc = "replied", !.status = 400]]
            /\ servicePools' = servicePools
       ELSE /\ servicePools' = Append(servicePools, "open")
            /\ handler' = [handler EXCEPT ![p] =
                 [h EXCEPT !.pc = "service", !.pool = Len(servicePools) + 1]]
  /\ UNCHANGED <<registryVars, tokenVars, patchVars, poolVars, resolveVars>>

\* The workflow returned: the handler answers its result.
ServiceReturns(p) ==
  /\ handler[p].pc = "service"
  /\ servicePools' = IF Closes(handler[p].route, FALSE)
                       THEN [servicePools EXCEPT ![handler[p].pool] = "closed"]
                       ELSE servicePools
  /\ handler' = [handler EXCEPT ![p] = [@ EXCEPT !.pc = "replied", !.status = 200]]
  /\ UNCHANGED requestCount
  /\ UNCHANGED <<registryVars, tokenVars, patchVars, poolVars, resolveVars>>

\* The workflow threw: the handler answers from its catch block.
ServiceThrows(p, thrown) ==
  /\ handler[p].pc = "service"
  /\ thrown \in ServiceErrors(handler[p].route, handler[p].docid)
  /\ servicePools' = IF Closes(handler[p].route, TRUE)
                       THEN [servicePools EXCEPT ![handler[p].pool] = "closed"]
                       ELSE servicePools
  /\ handler' = [handler EXCEPT ![p] =
       [@ EXCEPT !.pc = "replied", !.thrown = thrown,
                 !.status = StatusOfError(handler[p].route, thrown.message)]]
  /\ UNCHANGED requestCount
  /\ UNCHANGED <<registryVars, tokenVars, patchVars, poolVars, resolveVars>>

AllServiceErrors ==
  UNION {ServiceErrors(route, docid) : route \in Routes, docid \in RouteDocIds}

RouteInit ==
  InitEmpty /\ InitShareDoService /\ InitUnpatched /\ InitPool /\ InitResolver /\ InitRoutes

RouteNext ==
  \/ \E p \in Procs, route \in Routes, docid \in RouteDocIds, templateFolder \in RouteFolders :
       Receive(p, route, docid, templateFolder)
  \/ \E p \in Procs : ServiceReturns(p)
  \/ \E p \in Procs, thrown \in AllServiceErrors : ServiceThrows(p, thrown)

RouteSpec == RouteInit /\ [][RouteNext]_vars

(***************************************************************************)
(* Convert on its own, against a registry that holds a.dot and a.DOT.      *)
(***************************************************************************)
TwinDocIds == {aDot, aDOT}

ConvertInit ==
  /\ InitTwins /\ InitShareDoService /\ InitUnpatched
  /\ InitPool /\ InitResolver /\ InitRoutes

ConvertNext ==
  \/ \E p \in Procs, docid \in TwinDocIds, ok \in BOOLEAN : StartConvert(p, docid, ok)
  \/ \E p \in Procs, ok \in BOOLEAN : ConvertRetrieve(p, ok)
  \/ \E p \in Procs, response \in ConverterResponses :
       ConvertDoConversion(p, response)
  \/ \E p \in Procs, ok \in BOOLEAN : ConvertSave(p, ok)
  \/ \E p \in Procs, ok \in BOOLEAN : ConvertUpdate(p, ok)

ConvertSpec == ConvertInit /\ [][ConvertNext]_vars




(***************************************************************************)
(* Properties.                                                             *)
(***************************************************************************)
IngestOf(p) == wf[p].op = "ingest"
ConvertOf(p) == wf[p].op = "convert"
DeployOf(p) == wf[p].op = "deploy"
HasEvent(p, e) == \E i \in 1..Len(wf[p].events) : wf[p].events[i] = e

\* C1: after any sequence and interleaving of upserts the registry holds at
\* most one row per docid, a row only for upserted docids, and that row's
\* descriptive fields and batch_id are the parameters of the last upsert
\* applied for the docid (full replace, not merge).
C1_UpsertFullReplace ==
  /\ \A r1, r2 \in templates : r1.docid = r2.docid => r1 = r2
  /\ \A r \in templates : r.docid \in DOMAIN lastUpsert
  /\ \A d \in DOMAIN lastUpsert :
       \E r \in templates :
         r.docid = d /\ \A c \in UpsertCols : r[c] = lastUpsert[d][c]

\* An upsert has replaced an existing row: the name changed and a
\* template_type that was set is now NULL.
C1_Witness ==
  \E p \in Procs :
    /\ IngestOf(p)
    /\ \E i \in 1..Len(wf[p].priorRows) :
         LET prior == wf[p].priorRows[i] IN
         /\ prior # NullEntry
         /\ prior.template_type # Null
         /\ \E r \in templates :
              r.docid = prior.docid /\ r.name # prior.name
                /\ r.template_type = Null

\* The batch id an Ingest holds or has returned.
HeldBatchId(p) ==
  IF wf[p].pc = "done" THEN wf[p].result.batchId ELSE wf[p].batchId

C2_State ==
  /\ \A b1, b2 \in uploads : b1.filepath = b2.filepath => b1 = b2
  /\ \A p \in Procs :
       (IngestOf(p) /\ wf[p].pc \in {"parse", "upsert", "done"}) =>
         \E b \in uploads :
           b.filepath = wf[p].csvFileName /\ b.id = HeldBatchId(p)

C2_Step == \A b \in uploads : b \in uploads'

\* C2: createBatch is idempotent on the manifest storage path: there is one
\* batch row per filepath, every Ingest of that filepath holds and returns
\* the id of that row, and no call changes the id or the creation timestamp
\* of an existing batch row.
C2_BatchIdempotent == []C2_State /\ [][C2_Step]_vars

\* An Ingest has been handed the id of a batch row that was created before
\* the Ingest started.
C2_Witness ==
  \E p \in Procs :
    /\ IngestOf(p) /\ wf[p].pc = "parse"
    /\ \E b \in uploads :
         /\ b.filepath = wf[p].csvFileName /\ b.id = wf[p].batchId
         /\ b.timestamp < wf[p].startedAt

\* A manifest record has a non-empty value under the key.
NonEmptyAt(row, key) == key \in DOMAIN row /\ row[key] # EmptyString
ResolvedAt(row, key, header) ==
  IF NonEmptyAt(row, key) THEN row[key] ELSE row[header]
RowValid(row) ==
  /\ NonEmptyAt(row, "docid") \/ NonEmptyAt(row, "DocID")
  /\ NonEmptyAt(row, "name") \/ NonEmptyAt(row, "Name")
\* docid and name of the valid records of a manifest, in manifest order
ValidKeys(rows) ==
  LET valid == SelectSeq(rows, RowValid) IN
  [i \in 1..Len(valid) |->
     <<ResolvedAt(valid[i], "docid", "DocID"),
       ResolvedAt(valid[i], "name", "Name")>>]
KeysOf(entries) ==
  [i \in 1..Len(entries) |-> <<entries[i].docid, entries[i].name>>]
ManifestRowsOf(p) == csvEntry(wf[p].archive).data.rows
CountEvents(p, e) ==
  Cardinality({i \in 1..Len(wf[p].events) : wf[p].events[i] = e})

\* C3: Ingest accepts a manifest row iff docid and name both resolve to
\* non-empty values; only accepted rows are upserted and returned, in
\* manifest order; with no accepted row Ingest fails with
\* NoValidEntriesError and performs no upsert.
C3_AcceptedRows ==
  \A p \in Procs :
    (IngestOf(p) /\ wf[p].error # "MissingManifestError") =>
      LET valid == ValidKeys(ManifestRowsOf(p)) IN
      /\ wf[p].pc = "upsert" =>
           /\ KeysOf(wf[p].csvRows) = valid
           /\ KeysOf(wf[p].registryEntries)
                = SubSeq(valid, 1, Len(wf[p].registryEntries))
      /\ wf[p].pc = "done" => KeysOf(wf[p].result.registryEntries) = valid
      /\ CountEvents(p, "upsert") <= Len(valid)
      /\ wf[p].pc \in {"upsert", "done"} => Len(valid) > 0
      /\ wf[p].error = "NoValidEntriesError" =>
           /\ wf[p].pc = "failed" /\ Len(valid) = 0
           /\ ~HasEvent(p, "upsert")

\* An Ingest has returned fewer entries than its manifest has records.
C3_Witness ==
  \E p \in Procs :
    /\ IngestOf(p) /\ wf[p].pc = "done"
    /\ Len(wf[p].result.registryEntries) < Len(ManifestRowsOf(p))

NoManifestIn(zipEntries) ==
  \A i \in 1..Len(zipEntries) :
    \/ zipEntries[i].isDirectory
    \/ ~endsWith(toLowerCase(zipEntries[i].entryName), CsvSuffix)

\* C4: Ingest of an archive without a non-directory entry named *.csv
\* (case-insensitive) fails with MissingManifestError having issued no
\* blob-store write, batch creation or upsert; an archive with a manifest
\* never fails with MissingManifestError, also when it has no document.
C4_MissingManifest ==
  \A p \in Procs :
    IngestOf(p) =>
      IF NoManifestIn(wf[p].archive)
        THEN /\ wf[p].pc = "failed"
             /\ wf[p].error = "MissingManifestError"
             /\ wf[p].events = <<>>
             /\ \A u \in inflight : ~(u.proc = p /\ u.opid = wf[p].opid)
        ELSE wf[p].error # "MissingManifestError"

\* An Ingest of an archive without manifest has failed.
C4_Witness ==
  \E p \in Procs :
    /\ IngestOf(p) /\ wf[p].pc = "failed"
    /\ NoManifestIn(wf[p].archive)
    /\ \E i \in 1..Len(wf[p].archive) : IsDocumentEntry(wf[p].archive[i])

C5_Step ==
  \A p \in Procs :
    (/\ wf'[p].op = "convert"
     /\ wf'[p].opid # wf[p].opid
     /\ wf'[p].error # "DatabaseError"
     /\ \A r \in templates : r.docid # wf'[p].docid)
    => (wf'[p].pc = "failed" /\ wf'[p].error = "NotFoundError")

C5_State ==
  \A p \in Procs :
    (ConvertOf(p) /\ wf[p].error = "NotFoundError") =>
      (wf[p].pc = "failed" /\ wf[p].events = <<"lookup">>)

\* C5: a Convert whose lookup finds no row for the docid fails with
\* NotFoundError, and a Convert that failed so issued nothing but the
\* lookup: no blob read, no conversion, no blob write, no registry update.
C5_ConvertNotFound == [][C5_Step]_vars /\ []C5_State

\* A Convert of a docid without row has failed while the registry holds
\* rows of other docids.
C5_Witness ==
  \E p \in Procs :
    /\ ConvertOf(p) /\ wf[p].pc = "failed" /\ wf[p].error = "NotFoundError"
    /\ templates # {}
    /\ \A r \in templates : r.docid # wf[p].docid


\* A converted_file_path that is empty, absent or only whitespace.
Blank(v) == Falsy(v) \/ TrimIsEmpty(v)
\* The entry a Deploy or Convert found at its lookup.
FoundEntry(p) == wf[p].lookedUp # NullEntry
Ended_(p) == wf[p].pc \in {"done", "failed"}

\* No work type and no derived type of the platform has the name.
NoWorkTypeNamed(n) ==
  \A i \in 1..Len(WorkTypes) :
    /\ toLowerCase(WorkTypes[i].name) # toLowerCase(n)
    /\ \A j \in 1..Len(WorkTypes[i].derivedTypes) :
         toLowerCase(WorkTypes[i].derivedTypes[j].name) # toLowerCase(n)

\* C6 as stated: Deploy on an existing entry with empty converted_file_path
\* fails with NotConvertedError whatever the other fields are.
C6_Original ==
  \A p \in Procs :
    (DeployOf(p) /\ FoundEntry(p) /\ Blank(wf[p].lookedUp.converted_file_path)
       /\ Ended_(p) /\ wf[p].faults = {})
    => (wf[p].pc = "failed" /\ wf[p].error = "NotConvertedError")

\* The data_context of the looked-up entry is set, names a platform work
\* type or derived type, and the work-type listing was answered.
ContextResolved(p) ==
  /\ Truthy(wf[p].lookedUp.data_context)
  /\ ~NoWorkTypeNamed(wf[p].lookedUp.data_context)
  /\ "listWorkTypes" \notin wf[p].faults

\* C6 (amended): Deploy on an existing entry with empty converted_file_path
\* never gets past the converted-path test: it fails with
\* NotConvertedError when the entry's data_context is non-empty and
\* resolves to a platform work type or derived type, and with
\* ValidationError when data_context is empty or does not resolve.
C6_NotConvertedAfterValidation ==
  \A p \in Procs :
    (DeployOf(p) /\ FoundEntry(p) /\ Blank(wf[p].lookedUp.converted_file_path))
    => /\ wf[p].pc \in {"templateType", "contextType", "failed"}
       /\ wf[p].pc = "failed" =>
            wf[p].error = IF ContextResolved(p)
                            THEN "NotConvertedError" ELSE "ValidationError"

\* A Deploy of an unconverted entry with a resolved context has failed with
\* NotConvertedError.
C6_Witness ==
  \E p \in Procs :
    /\ DeployOf(p) /\ FoundEntry(p)
    /\ Blank(wf[p].lookedUp.converted_file_path)
    /\ wf[p].pc = "failed" /\ wf[p].error = "NotConvertedError"
    /\ HasEvent(p, "listWorkTypes")

\* C7: Deploy on an existing entry whose data_context is empty or names no
\* platform work type or derived type fails with ValidationError, whatever
\* template_type and converted_file_path are, and issues no platform
\* upload, no createTemplate call and no registry write.
C7_ContextRequired ==
  \A p \in Procs :
    (DeployOf(p) /\ FoundEntry(p)
       /\ (Falsy(wf[p].lookedUp.data_context)
             \/ NoWorkTypeNamed(wf[p].lookedUp.data_context)))
    => /\ wf[p].pc \in {"templateType", "contextType", "failed"}
       /\ wf[p].pc = "failed" => wf[p].error = "ValidationError"
       /\ ~HasEvent(p, "platformUpload")
       /\ ~HasEvent(p, "createTemplate")
       /\ ~HasEvent(p, "updateShareDo")

\* A Deploy of a converted entry without data_context has failed with
\* ValidationError.
C7_Witness ==
  \E p \in Procs :
    /\ DeployOf(p) /\ FoundEntry(p)
    /\ Falsy(wf[p].lookedUp.data_context)
    /\ ~Blank(wf[p].lookedUp.converted_file_path)
    /\ wf[p].pc = "failed" /\ wf[p].error = "ValidationError"

\* C8: a Deploy that found the entry with an empty converted_file_path at
\* its lookup never issues a platform upload or a createTemplate call,
\* whatever Ingest and Convert calls run meanwhile.
C8_NoDeployOfUnconverted ==
  \A p \in Procs :
    (DeployOf(p) /\ FoundEntry(p) /\ Blank(wf[p].lookedUp.converted_file_path))
    => (~HasEvent(p, "platformUpload") /\ ~HasEvent(p, "createTemplate"))

\* A Deploy that looked up an unconverted entry has ended after a concurrent
\* Convert stored the artifact and set the entry's converted_file_path.
C8_Witness ==
  \E p \in Procs :
    /\ DeployOf(p) /\ FoundEntry(p)
    /\ Blank(wf[p].lookedUp.converted_file_path)
    /\ wf[p].pc = "failed"
    /\ \E r \in templates :
         r.docid = wf[p].docid /\ ~Blank(r.converted_file_path)

\* C9 as stated: every entry returned by Ingest has empty derived fields,
\* also on a re-ingest of a converted or deployed docid.
C9_Original ==
  \A p \in Procs :
    (IngestOf(p) /\ wf[p].pc = "done") =>
      \A i \in 1..Len(wf[p].result.registryEntries) :
        \A c \in DerivedCols : Falsy(wf[p].result.registryEntries[i][c])

\* C9 (amended): every entry returned by Ingest carries the derived fields
\* that the row of its docid held just before the upsert: empty when the
\* docid had no row or was not yet converted or deployed, the existing
\* values on a re-ingest of a converted or deployed docid.
C9_ReturnedDerivedFields ==
  \A p \in Procs :
    (IngestOf(p) /\ wf[p].pc = "done") =>
      \A i \in 1..Len(wf[p].result.registryEntries) :
        \A c \in DerivedCols :
          /\ wf[p].result.registryEntries[i][c] = wf[p].priorRows[i][c]
          /\ wf[p].priorRows[i] = NullEntry =>
               Falsy(wf[p].result.registryEntries[i][c])

\* An Ingest has returned an entry with a converted_file_path, and one of
\* a docid that had no row.
C9_Witness ==
  \E p \in Procs :
    /\ IngestOf(p) /\ wf[p].pc = "done"
    /\ \E i \in 1..Len(wf[p].result.registryEntries) :
         Truthy(wf[p].result.registryEntries[i].converted_file_path)
    /\ \E i \in 1..Len(wf[p].result.registryEntries) :
         wf[p].priorRows[i] = NullEntry

\* C10: a row with a non-empty converted_file_path refers to an object of
\* the conversions bucket; Convert reaches the registry update only with the
\* artifact stored; after a successful Convert the row of the docid holds
\* the returned convertedFilePath.
C10_ConvertedPathStored ==
  /\ \A r \in templates :
       Truthy(r.converted_file_path) =>
         HasObject("conversions", r.converted_file_path)
  /\ \A p \in Procs :
       /\ (ConvertOf(p) /\ wf[p].pc = "update") =>
            HasObject("conversions", wf[p].convertedDocPath)
       /\ (ConvertOf(p) /\ wf[p].pc = "done") =>
            /\ wf[p].result.docid = wf[p].docid
            /\ \E r \in templates :
                 /\ r.docid = wf[p].docid
                 /\ r.converted_file_path = wf[p].result.convertedFilePath

\* A Convert of b.DOT has returned b.docx.
C10_Witness ==
  \E p \in Procs :
    /\ ConvertOf(p) /\ wf[p].pc = "done" /\ wf[p].docid = bDOT
    /\ wf[p].result.convertedFilePath = <<"b", ".", "d", "o", "c", "x">>

(***************************************************************************)
(* Properties of the token cache (checked under TokenSpec).                *)
(***************************************************************************)
\* Process p starts an authenticated call in this step.
CallStarts(p) == callCount' = callCount + 1 /\ call'[p].callId = callCount'

\* The exchange of process p is answered in this step.
AnswerTo(p) == call[p].pc = "exchange" /\ call'[p].pc # "exchange"

\* The call of process p holds a token that getAccessToken returned.
HoldsToken(p) ==
  call[p].pc \in {"request", "done"}
    \/ (call[p].pc = "failed" /\ call[p].error = "ApiError")

C11_Step ==
  \A p \in Procs :
    /\ CallStarts(p) =>
         IF tokenCache # NullTokenCache
              /\ clock < tokenCache.expiresAt - 30 * 1000
           THEN /\ call'[p].pc = "request"
                /\ call'[p].exchanges = 0
                /\ call'[p].tokenResponse.cached
                /\ call'[p].tokenResponse.access_token = tokenCache.accessToken
                /\ call'[p].tokenResponse.expires_at = tokenCache.expiresAt
                /\ tokenCache' = tokenCache
           ELSE /\ call'[p].pc = "exchange"
                /\ call'[p].exchanges = 1
    /\ (AnswerTo(p) /\ call'[p].pc = "request") =>
         /\ call'[p].exchanges = 1
         /\ ~call'[p].tokenResponse.cached
         /\ call'[p].tokenResponse.access_token = call'[p].answer.access_token
         /\ tokenCache'.accessToken = call'[p].answer.access_token
         /\ tokenCache'.expiresIn = call'[p].tokenResponse.expires_in
         /\ tokenCache'.expiresAt = clock + tokenCache'.expiresIn * 1000
         /\ call'[p].tokenResponse.expires_at = tokenCache'.expiresAt

C11_State ==
  \A p \in Procs :
    /\ call[p].exchanges <= 1
    /\ HoldsToken(p) => (call[p].tokenResponse.cached <=> call[p].exchanges = 0)

\* C11: getAccessToken answers cached=true with the cached token, and issues
\* no credential exchange, exactly when a token is cached and the clock is
\* before its expiry minus 30 seconds; otherwise it issues exactly one
\* exchange, and when that exchange succeeds it answers cached=false and
\* replaces the cache slot by the new token with expiry = the clock at the
\* answer + expires_in seconds.
C11_CachedIffValid == []C11_State /\ [][C11_Step]_vars

\* A call that obtained its token by an exchange, and a later call answered
\* from the cache with that token after time has passed.
C11_Witness ==
  \E p, q \in Procs :
    /\ call[q].pc = "request" /\ ~call[q].tokenResponse.cached
    /\ call[q].exchanges = 1
    /\ call[p].pc = "done" /\ call[p].tokenResponse.cached
    /\ call[p].exchanges = 0
    /\ call[p].tokenResponse.access_token = call[q].tokenResponse.access_token
    /\ clock > 0

\* C12: under every interleaving the cache slot is empty or holds the token,
\* expiry, lifetime and type of one successful exchange, namely of the one
\* answered last; and every token handed to a caller was issued by a
\* successful exchange.
C12_SlotIsLastExchange ==
  /\ (granted = <<>>) <=> (tokenCache = NullTokenCache)
  /\ granted # <<>> =>
       LET g == granted[Len(granted)] IN
       /\ tokenCache.accessToken = g.body.access_token
       /\ tokenCache.expiresAt = g.at + g.body.expires_in * 1000
       /\ tokenCache.expiresIn = g.body.expires_in
       /\ tokenCache.tokenType =
            IF g.body.token_type = Undefined THEN Bearer ELSE g.body.token_type
  /\ \A p \in Procs :
       HoldsToken(p) =>
         \E i \in 1..Len(granted) :
           call[p].tokenResponse.access_token = granted[i].body.access_token
  /\ \A i, j \in 1..Len(granted) :
       i # j => granted[i].body.access_token # granted[j].body.access_token

\* Two racing refreshes have both finished, at different instants: the slot
\* holds the token of the one answered last, the other caller holds an
\* earlier token.
C12_Witness ==
  /\ Len(granted) = 2
  /\ granted[1].at < granted[2].at
  /\ \E p, q \in Procs :
       /\ p # q
       /\ call[p].pc = "request" /\ call[q].pc = "request"
       /\ call[p].exchanges = 1 /\ call[q].exchanges = 1
       /\ call[p].tokenResponse.access_token = granted[1].body.access_token
       /\ call[q].tokenResponse.access_token = granted[2].body.access_token
       /\ tokenCache.accessToken = granted[2].body.access_token

\* The identity server refused the exchange of process p, or answered
\* without a token field.
ExchangeRefused(p) ==
  /\ call[p].answer.status # 0
  /\ \/ call[p].answer.status < 200
     \/ call[p].answer.status > 299
     \/ call[p].answer.access_token \in {Undefined, Null, EmptyString}

C13_State ==
  \A p \in Procs :
    ExchangeRefused(p) =>
      /\ call[p].pc = "failed"
      /\ call[p].error = "AuthenticationError"
      /\ call[p].requests = 0

C13_Step ==
  \A p \in Procs :
    (AnswerTo(p) /\ ExchangeRefused(p)') =>
      /\ tokenCache' = tokenCache
      /\ granted' = granted

\* C13: when the credential exchange is answered with a non-2xx status or
\* with a body that has no token, getAccessToken fails with
\* AuthenticationError, the cache slot is left as it was, and the call never
\* sends its authenticated request.
C13_ExchangeFailure == []C13_State /\ [][C13_Step]_vars

\* A refused exchange while a token of an earlier exchange is cached.
C13_Witness ==
  \E p \in Procs :
    /\ ExchangeRefused(p)
    /\ call[p].answer.status = 200
    /\ tokenCache # NullTokenCache

(***************************************************************************)
(* The container patcher, read back as a document reader reads it.         *)
(***************************************************************************)

RECURSIVE Ascending(_)
Ascending(S) ==
  IF S = {} THEN <<>>
  ELSE LET m == CHOOSE x \in S : \A y \in S : x <= y
       IN <<m>> \o Ascending(S \ {m})

\* The property elements of a custom-properties content, in document order.
PropertiesOf(content) ==
  LET starts == Ascending({i \in 1..Len(content) : content[i] = Xml.propertyOpen})
      CloseOf(i) == CHOOSE j \in i..Len(content) :
                      /\ content[j] = Xml.propertyClose
                      /\ \A k \in i..(j - 1) : content[k] # Xml.propertyClose
  IN [k \in 1..Len(starts) |->
        [pid |-> content[starts[k] + 1].n,
         name |-> content[starts[k] + 2],
         value |-> SubSeq(content, starts[k] + 4, CloseOf(starts[k]) - 1)]]

CustomProperties(container) ==
  IF getEntry(container, Part.customXml)
  THEN PropertiesOf(container[Part.customXml]) ELSE <<>>

PidsOf(container) ==
  {CustomProperties(container)[k].pid : k \in 1..Len(CustomProperties(container))}

\* The content-type manifest registers the custom-properties part.
Registered(container) ==
  /\ getEntry(container, Part.contentTypes)
  /\ LET c == container[Part.contentTypes]
     IN \E i \in 1..Len(c) :
          /\ c[i] = Xml.customOverride
          /\ IndexOf(c, Xml.typesOpen) # 0 /\ IndexOf(c, Xml.typesOpen) < i
          /\ \E j \in (i + 1)..Len(c) : c[j] = Xml.typesClose

\* The top-level relationship manifest relates the package to the part.
Related(container) ==
  /\ getEntry(container, Part.rels)
  /\ LET c == container[Part.rels]
     IN \E i \in 1..(Len(c) - 2) :
          /\ c[i] = Xml.relationshipOpen
          /\ c[i + 1].t = "Id=rId"
          /\ c[i + 2] = Xml.customRelType
          /\ IndexOf(c, Xml.relationshipsOpen) # 0 /\ IndexOf(c, Xml.relationshipsOpen) < i
          /\ \E j \in (i + 3)..Len(c) : c[j] = Xml.relationshipsClose

Patched == patchIds # <<>>

\* C14: when a container that lacks the custom-properties part is patched
\* and the result is patched again, each patch appends one property that
\* holds the identifier and whose pid is the previous maximum pid plus one
\* (2 when there was none), so the pids of the added properties strictly
\* increase; and after either path the container has the custom-properties
\* part, its content-type registration and a top-level relationship to it.
C14_PidsIncrease ==
  (~getEntry(original, Part.customXml) /\ Patched) =>
    LET was == CustomProperties(before)
        is == CustomProperties(zip)
    IN /\ Len(is) = Len(was) + 1
       /\ SubSeq(is, 1, Len(was)) = was
       /\ is[Len(is)].pid = IF PidsOf(before) = {} THEN 2 ELSE MaxOf(PidsOf(before)) + 1
       /\ is[Len(is)].name = Xml.propertyName
       /\ is[Len(is)].value = Interpolate(patchIds[Len(patchIds)])
       /\ Len(is) = Len(patchIds)
       /\ \A k \in 1..(Len(is) - 1) : is[k].pid < is[k + 1].pid
       /\ getEntry(zip, Part.customXml)
       /\ Registered(zip)
       /\ Related(zip)

\* C14 witness: a container without manifests has been patched twice, the
\* first patch added pid 2 and the second added pid 3.
C14_Witness ==
  /\ original = OnlyDocument
  /\ Len(patchIds) = 2
  /\ PidsOf(before) = {2}
  /\ PidsOf(zip) = {2, 3}
  /\ CustomProperties(zip)[2].value = Interpolate(patchIds[2])

MetadataParts == {Part.customXml, Part.contentTypes, Part.rels}

SameEntry(name) ==
  /\ getEntry(before, name) <=> getEntry(zip, name)
  /\ getEntry(before, name) => zip[name] = before[name]

AllNames == (DOMAIN before) \cup (DOMAIN zip)

\* C15: a patch leaves every entry other than the custom-properties part,
\* the content-type manifest and the top-level relationship manifest as it
\* was and adds or removes no other entry; when the custom-properties part
\* was already there, only that part changes.
C15_OnlyMetadataChanges ==
  Patched =>
    /\ \A name \in AllNames \ MetadataParts : SameEntry(name)
    /\ getEntry(before, Part.customXml) =>
         /\ \A name \in AllNames \ {Part.customXml} : SameEntry(name)
         /\ zip[Part.customXml] # before[Part.customXml]

\* C15 witness: a first patch rewrote both manifests and added the part, and
\* the document body is what it was.
C15_Witness ==
  /\ Len(patchIds) = 1
  /\ before = SparseRelsContainer
  /\ zip[Part.contentTypes] # before[Part.contentTypes]
  /\ zip[Part.rels] # before[Part.rels]
  /\ getEntry(zip, Part.customXml)
  /\ zip[Part.document] = DocumentBody

(***************************************************************************)
(* Deploy and the platform fields of a row.                                *)
(***************************************************************************)

PlatformInfoSet(row) ==
  Truthy(row.sharedo_pathid) \/ Truthy(row.sharedo_downloadurl)

\* Every call made so far still has its frame.
AllFramesKept == Cardinality({p \in Procs : wf[p].op # "none"}) = opCount

RequestSucceeded(w, e) ==
  /\ \E i \in 1..Len(w.events) : w.events[i] = e
  /\ e \notin w.faults

\* C16 as stated: a row has a non-empty sharedo_pathid or
\* sharedo_downloadurl only if a Deploy of its docid has returned, the
\* platform upload and createTemplate both having succeeded.
C16_Original ==
  AllFramesKept =>
    \A row \in templates :
      PlatformInfoSet(row) =>
        \E p \in Procs :
          /\ wf[p].op = "deploy"
          /\ wf[p].docid = row.docid
          /\ wf[p].pc = "done"
          /\ RequestSucceeded(wf[p], "platformUpload")
          /\ RequestSucceeded(wf[p], "createTemplate")

\* The step that gives the row of a docid platform fields it did not have.
GainsPlatformInfo(row) ==
  /\ row \in templates'
  /\ PlatformInfoSet(row)
  /\ \A r \in templates :
       r.docid = row.docid =>
         \/ r.sharedo_pathid # row.sharedo_pathid
         \/ r.sharedo_downloadurl # row.sharedo_downloadurl

C16_State ==
  /\ opCount = 0 => \A row \in templates : ~PlatformInfoSet(row)
  /\ \A p \in Procs :
       (wf[p].op = "deploy" /\ wf[p].pc = "createTemplate") =>
         \E row \in templates :
           /\ row.docid = wf[p].docid
           /\ PlatformInfoSet(row)

C16_Step ==
  \A row \in templates' :
    GainsPlatformInfo(row) =>
      \E p \in Procs, uploadResult \in UploadResults :
        /\ wf[p].op = "deploy"
        /\ wf[p].docid = row.docid
        /\ wf[p].pc = "updateShareDo"
        /\ RequestSucceeded(wf[p], "platformUpload")
        /\ Len(uploadResult) > 0
        /\ row.sharedo_pathid = uploadResult[1].pathId
        /\ row.sharedo_downloadurl = uploadResult[1].downloadUrl
        /\ wf[p].shareDoPathId = uploadResult[1].pathId
        /\ wf'[p].pc = "createTemplate"
        /\ ~RequestSucceeded(wf'[p], "createTemplate")

\* C16 (amended): a row gains a non-empty sharedo_pathid or
\* sharedo_downloadurl only in step 8 of a Deploy of its docid whose platform
\* upload succeeded and returned a descriptor, and the values are those of
\* the first descriptor; createTemplate has not been called yet at that
\* step, so the fields are set while the Deploy is running and stay set
\* when createTemplate then fails.
C16_SetAfterPlatformUpload == []C16_State /\ [][C16_Step]_vars

\* C16 witness: the Deploy of a docid failed in createTemplate and the row of
\* the docid has the identifiers of the platform upload.
C16_Witness ==
  \E p \in Procs, row \in templates :
    /\ wf[p].op = "deploy"
    /\ wf[p].pc = "failed"
    /\ wf[p].error = "TemplateCreationError"
    /\ row.docid = wf[p].docid
    /\ Truthy(row.sharedo_pathid)
    /\ Truthy(row.sharedo_downloadurl)
    /\ \A q \in Procs \ {p} : wf[q].op # "deploy"

(***************************************************************************)
(* Rows and the documents they name.                                       *)
(***************************************************************************)

\* C17 as stated: in every reachable state, the docid of each registry row
\* names an object that is present in the uploads namespace of the blob
\* store.
C17_Original ==
  \A row \in templates : HasObject("uploads", row.docid)

(***************************************************************************)
(* The pool: what a method holds when it exits.                            *)
(***************************************************************************)

InMethod(p) == storeCall[p].pc \in {"connect", "query"}
WorkflowEnded(p) == storeCall[p].pc \in {"done", "failed"}

C18_State ==
  /\ checkedOut = Cardinality({p \in Procs : storeCall[p].pc = "query"})
  /\ \A p \in Procs :
       /\ storeCall[p].held = IF storeCall[p].pc = "query" THEN 1 ELSE 0
       /\ ~InMethod(p) => storeCall[p].released = storeCall[p].acquired
       /\ storeCall[p].acquired <= 1
       /\ WorkflowEnded(p) => storeCall[p].held = 0

C18_Step ==
  \A p \in Procs :
    (storeCall[p].pc = "query" /\ storeCall'[p].pc # "query") =>
      /\ storeCall[p].method \in StoreMethods
      /\ storeCall'[p].released = storeCall[p].released + 1
      /\ storeCall'[p].held = 0
      /\ checkedOut' = checkedOut - 1

\* C18: each of the six store methods releases the client it checked out
\* exactly once on every exit path, after a query that succeeded and after
\* one that failed; a workflow that has returned or thrown holds no
\* checked-out client.
C18_ReleasedOnEveryExit == []C18_State /\ [][C18_Step]_vars

\* C18 witness: a workflow threw out of the failed query of its second
\* store method while another process holds a client, and it holds none.
C18_Witness ==
  \E p \in Procs, q \in Procs :
    /\ storeCall[p].pc = "failed"
    /\ storeCall[p].workflow = "deploy"
    /\ storeCall[p].method = "updateShareDoDetails"
    /\ storeCall[p].acquired = 1
    /\ storeCall[p].released = 1
    /\ storeCall[q].pc = "query"
    /\ checkedOut = 1

(***************************************************************************)
(* Convert, run again.                                                     *)
(***************************************************************************)

ConvertedKey(docid) == <<"conversions", ConvertedFileName(docid)>>

\* The artifact a Convert of these bytes leaves is already stored.
ArtifactStored(docid, originalBuffer) ==
  /\ ConvertedKey(docid) \in DOMAIN storage
  /\ storage[ConvertedKey(docid)] = Converted(originalBuffer)

\* The row of the docid already has the path a Convert gives it.
PathStored(docid) ==
  \A r \in templates :
    r.docid = docid => r.converted_file_path = ConvertedFileName(docid)

C19_State ==
  \A p \in Procs, q \in Procs :
    /\ ConvertOf(p) /\ wf[p].pc = "done"
    /\ ConvertOf(q) /\ wf[q].pc = "done"
    /\ wf[p].docid = wf[q].docid
    => wf[p].result = wf[q].result

C19_Step ==
  \A p \in Procs :
    ConvertOf(p) =>
      /\ (wf[p].pc = "save" /\ wf'[p].pc = "update") =>
           /\ ArtifactStored(wf[p].docid, wf[p].originalBuffer) => storage' = storage
           /\ storage'[ConvertedKey(wf[p].docid)] = Converted(wf[p].originalBuffer)
           /\ \A k \in DOMAIN storage' \ {ConvertedKey(wf[p].docid)} :
                k \in DOMAIN storage /\ storage'[k] = storage[k]
      /\ (wf[p].pc = "update" /\ wf'[p].pc = "done") =>
           /\ PathStored(wf[p].docid) => templates' = templates
           /\ PathStored(wf[p].docid)'
           /\ wf'[p].result = [docid |-> wf[p].docid,
                               convertedFilePath |-> ConvertedFileName(wf[p].docid)]

\* C19: Convert is idempotent.  The artifact a Convert stores is the
\* conversion of the bytes it read and the path it writes and returns is a
\* function of the docid; a Convert that finds the artifact and the path of
\* an earlier Convert of the same bytes leaves the conversions bucket and
\* the row as they are, and two Converts of one docid return the same
\* {docid, convertedFilePath}.
C19_ConvertIdempotent == []C19_State /\ [][C19_Step]_vars

\* C19 witness: a.dot was converted before the service started and two more
\* Converts of a.dot have returned; the artifact and the path are those the
\* first Convert left.
C19_Witness ==
  /\ wf[1].op = "convert" /\ wf[1].pc = "done" /\ wf[1].docid = aDot
  /\ wf[2].op = "convert" /\ wf[2].pc = "done" /\ wf[2].docid = aDot
  /\ storage = StorageAfterPut(IngestedStorage, "conversions",
                               ConvertedFileName(aDot), Converted(Arch1[1].data))
  /\ templates = updateConvertedFilePath(IngestedTemplates, aDot,
                                         ConvertedFileName(aDot))

(***************************************************************************)
(* Ingest, run again or retried.                                           *)
(***************************************************************************)

RetriedInputs == {<<Arch1, uCsv>>, <<Arch2, uCsv>>}

\* Every workflow call made so far is an Ingest of this archive under this
\* manifest filename.
OnlyIngestsOf(in) ==
  /\ opLog # <<>>
  /\ \A i \in 1..Len(opLog) : opLog[i] = Called("ingest", in[1], in[2], Undefined)

\* What one successful Ingest leaves in the uploads namespace.
UploadsNamespaceOf(in) ==
  LET docs == documentEntries(in[1])
      names == {docs[i].entryName : i \in 1..Len(docs)} \cup {in[2]}
  IN [k \in {<<"uploads", n>> : n \in names} |->
        IF k[2] = in[2] THEN csvEntry(in[1]).data
        ELSE docs[CHOOSE i \in 1..Len(docs) : docs[i].entryName = k[2]].data]

UploadsNamespace ==
  [k \in {j \in DOMAIN storage : j[1] = "uploads"} |-> storage[k]]

\* What one successful Ingest writes into the registry, row by row.
UpsertedBy(in, batchId) ==
  LET rows == csvRowsOf(csvEntry(in[1]).data.rows, batchId)
  IN {UpsertValues(rows[i], batchId) : i \in 1..Len(rows)}

Written(row) == [c \in UpsertCols |-> row[c]]

\* The columns Ingest does not write are as they were before the calls.
DerivedAsBefore(row) ==
  /\ row.sharedo_pathid = Null
  /\ row.sharedo_downloadurl = Null
  /\ \/ row.converted_file_path = Null
     \/ /\ row.converted_file_path = ConvertedFileName(row.docid)
        /\ HasObject("conversions", ConvertedFileName(row.docid))

\* The registry holds no row of a document that the manifest does not name:
\* the store the calls started from was empty or left by the same manifest.
NoForeignRows(in) ==
  \A r \in templates : \E v \in UpsertedBy(in, 1) : v.docid = r.docid

\* C20: Ingest is idempotent on retry.  When every call so far is an Ingest
\* of the same archive under the same manifest filename, on a store that
\* holds nothing of another manifest, some of them failed partway or not,
\* and one has returned, the uploads namespace, the batch and its id and
\* the registry rows are those of one successful Ingest.
C20_IngestIdempotent ==
  \A in \in RetriedInputs, p \in Procs :
    (OnlyIngestsOf(in) /\ NoForeignRows(in) /\ IngestOf(p)
       /\ wf[p].pc = "done") =>
      /\ UploadsNamespace = UploadsNamespaceOf(in)
      /\ \A k \in DOMAIN storage : k[1] \in {"uploads", "conversions"}
      /\ Cardinality(uploads) = 1
      /\ \A b \in uploads : b.filepath = in[2] /\ b.id = wf[p].result.batchId
      /\ wf[p].result.batchId = 1
      /\ {Written(r) : r \in templates} = UpsertedBy(in, 1)
      /\ Cardinality(templates) = Cardinality(UpsertedBy(in, 1))
      /\ \A r \in templates : DerivedAsBefore(r)

\* C20 witness: an Ingest of three rows failed in its second upsert, a
\* second Ingest of the same archive has returned, and the registry holds
\* the three rows under the one batch.
C20_Witness ==
  /\ Len(opLog) = 2
  /\ OnlyIngestsOf(<<Arch2, uCsv>>)
  /\ wf[1].pc = "failed" /\ wf[1].error = "PersistenceError"
  /\ Len(wf[1].priorRows) = 1
  /\ wf[2].pc = "done"
  /\ Cardinality(templates) = 3
  /\ Cardinality(uploads) = 1

(***************************************************************************)
(* Ingest: the fan-out of document uploads and what follows it.            *)
(***************************************************************************)

DocumentCount(p) == Len(documentEntries(wf[p].archive))

\* A step in which the blob store refuses one of the document uploads that
\* the Ingest of p is waiting for.
DocumentUploadRefused(p) ==
  /\ IngestOf(p)
  /\ wf[p].pc = "awaitUploads"
  /\ "putUploads" \notin wf[p].faults
  /\ "putUploads" \in wf'[p].faults
  /\ inflight' # inflight

C21_State ==
  \A p \in Procs :
    (IngestOf(p) /\ "putUploads" \in wf[p].faults) =>
      /\ wf[p].pc = "failed"
      /\ wf[p].error = "StorageError"
      /\ ~HasEvent(p, "createBatch")
      /\ ~HasEvent(p, "upsert")

C21_Step ==
  \A p \in Procs :
    /\ DocumentUploadRefused(p) =>
         /\ wf'[p].pc = "failed"
         /\ wf'[p].error = "StorageError"
         /\ wf'[p].events = wf[p].events
         /\ CountEvents(p, "putUploads") = DocumentCount(p)
         /\ templates' = templates
         /\ uploads' = uploads
         /\ storage' = storage
    /\ (IngestOf(p) /\ wf[p].pc = "failed" /\ wf'[p].opid = wf[p].opid) =>
         wf'[p] = wf[p]

\* C21: when the blob store refuses a document upload of Ingest step 2, the
\* Ingest fails with the storage error at that moment; it has uploaded no
\* manifest, created no batch and upserted no row, and does none of these
\* afterwards.
C21_DocumentUploadFailureAborts == []C21_State /\ [][C21_Step]_vars

\* C21 witness: of the two document uploads of an Ingest one was stored and
\* one was refused; the Ingest has failed and there is no batch and no row.
C21_Witness ==
  \E p \in Procs :
    /\ IngestOf(p) /\ wf[p].archive = Arch2
    /\ wf[p].pc = "failed" /\ wf[p].error = "StorageError"
    /\ CountEvents(p, "putUploads") = 2
    /\ HasObject("uploads", bDOT)
    /\ ~HasObject("uploads", uCsv)
    /\ uploads = {}
    /\ templates = {}

(***************************************************************************)
(* Ingest: documents and the batch record.                                 *)
(***************************************************************************)

DocumentStored(p, i) ==
  HasObject("uploads", documentEntries(wf[p].archive)[i].entryName)

BatchRecorded(path) == \E b \in uploads : b.filepath = path

\* C22 as stated, for the first call of the service: after an Ingest,
\* successful or failed, the uploads namespace holds a document of that
\* Ingest only if a batch record for its manifest path exists.
C22_Original ==
  \A p \in Procs :
    (IngestOf(p) /\ Ended_(p) /\ opCount = 1) =>
      ((\E i \in 1..DocumentCount(p) : DocumentStored(p, i)) =>
         BatchRecorded(wf[p].csvFileName))

\* C22 (amended): an Ingest creates or reuses its batch record only after
\* all its documents and its manifest are in the uploads namespace; the
\* documents that a failed Ingest stored before it failed stay there without
\* a batch record.
C22_BatchAfterDocuments ==
  \A p \in Procs :
    (IngestOf(p) /\ RequestSucceeded(wf[p], "createBatch")) =>
      /\ \A i \in 1..DocumentCount(p) : DocumentStored(p, i)
      /\ HasObject("uploads", wf[p].csvFileName)
      /\ BatchRecorded(wf[p].csvFileName)

\* C22 witness: an Ingest whose two documents and manifest are stored has
\* created its batch, and another Ingest failed in its document uploads and
\* created none.
C22_Witness ==
  \E p \in Procs :
    /\ IngestOf(p) /\ wf[p].archive = Arch2
    /\ RequestSucceeded(wf[p], "createBatch")
    /\ DocumentCount(p) = 2
    /\ BatchRecorded(uCsv)
    /\ \E q \in Procs \ {p} :
         /\ IngestOf(q) /\ wf[q].pc = "failed" /\ wf[q].error = "StorageError"
         /\ ~HasEvent(q, "createBatch")

(***************************************************************************)
(* Ingest: the upsert loop.                                                *)
(***************************************************************************)

UpsertsIssued(p) == CountEvents(p, "upsert")

HasRowOf(docid) == \E r \in templates : r.docid = docid

C23_State ==
  \A p \in Procs :
    LET valid == ValidKeys(ManifestRowsOf(p))
        k == UpsertsIssued(p)
    IN
    /\ (IngestOf(p) /\ "upsert" \in wf[p].faults) =>
         /\ wf[p].pc = "failed"
         /\ wf[p].error = "PersistenceError"
         /\ k \in 1..Len(valid)
         /\ wf[p].errorDocid = valid[k][1]
         /\ Len(wf[p].priorRows) = k - 1
         /\ \A i \in 1..(k - 1) : HasRowOf(valid[i][1])
    /\ (IngestOf(p) /\ wf[p].pc = "upsert") =>
         /\ k = Len(wf[p].registryEntries)
         /\ KeysOf(wf[p].registryEntries) = SubSeq(valid, 1, k)

C23_Step ==
  \A p \in Procs :
    (IngestOf(p) /\ wf[p].pc = "upsert" /\ wf'[p] # wf[p]) =>
      LET valid == ValidKeys(ManifestRowsOf(p))
          k == UpsertsIssued(p) + 1
      IN
      /\ UpsertsIssued(p)' = k
      /\ IF "upsert" \in wf'[p].faults
           THEN /\ templates' = templates
                /\ wf'[p].pc = "failed"
           ELSE /\ \E r \in templates' :
                     /\ r.docid = valid[k][1]
                     /\ r.name = valid[k][2]
                /\ \A r \in templates' :
                     r.docid # valid[k][1] => r \in templates
                /\ wf'[p].pc = IF k < Len(valid) THEN "upsert" ELSE "done"

ConverterRefused(p) == ConvertOf(p) /\ "convert" \in wf[p].faults

C26_State ==
  \A p \in Procs :
    ConverterRefused(p) =>
      LET r == wf[p].converterResponse IN
      /\ wf[p].pc = "failed"
      /\ r.status \notin 200..299
      /\ IF r.status = 408
           THEN wf[p].error = "ConversionTimeoutError"
           ELSE /\ wf[p].error = "ConversionError"
                /\ wf[p].errorStatus = r.status
                /\ wf[p].errorBody = r.body
      /\ ~HasEvent(p, "putConversions")
      /\ ~HasEvent(p, "updateConvertedPath")

C26_Step ==
  \A p \in Procs :
    (ConvertOf(p) /\ ~ConverterRefused(p) /\ ConverterRefused(p)') =>
      /\ wf[p].pc = "convert"
      /\ storage' = storage
      /\ templates' = templates

\* C26: in Convert a 408 answer of the converter ends the call with
\* ConversionTimeoutError and any other answer outside 200..299 with
\* ConversionError carrying the status and the body of the answer; the call
\* then writes nothing to the conversions bucket and does not update
\* converted_file_path.
C26_ConverterFailureWritesNothing == []C26_State /\ [][C26_Step]_vars

\* C26 witness: one Convert timed out and one was refused with 500 "boom";
\* the conversions bucket has no object and no row has a converted path.
C26_Witness ==
  \E p, q \in Procs :
    /\ ConverterRefused(p) /\ wf[p].error = "ConversionTimeoutError"
    /\ ConverterRefused(q) /\ wf[q].error = "ConversionError"
    /\ wf[q].errorStatus = 500 /\ wf[q].errorBody = <<"b", "o", "o", "m">>
    /\ \A k \in DOMAIN storage : k[1] # "conversions"
    /\ templates # {}
    /\ \A r \in templates : r.converted_file_path = Null

(***************************************************************************)
(* Ingest: the join of the document uploads.                               *)
(***************************************************************************)

\* The document uploads of the Ingest of p that have not been answered.
PendingUploads(p) ==
  {u \in inflight : u.proc = p /\ u.opid = wf[p].opid}

\* The entry names of the documents of the archive, in archive order.
DocumentPaths(p) ==
  [i \in 1..DocumentCount(p) |-> documentEntries(wf[p].archive)[i].entryName]

\* The Ingest of p has gone past the join.
PastJoin(p) ==
  \/ CountEvents(p, "putUploads") > DocumentCount(p)
  \/ HasEvent(p, "createBatch")
  \/ HasEvent(p, "upsert")

C24_State ==
  \A p \in Procs :
    /\ (IngestOf(p) /\ PastJoin(p)) =>
         /\ PendingUploads(p) = {}
         /\ \A i \in 1..DocumentCount(p) : DocumentStored(p, i)
    /\ (IngestOf(p) /\ wf[p].pc \in {"createBatch", "parse", "upsert"}) =>
         wf[p].uploadedFiles = DocumentPaths(p)
    /\ (IngestOf(p) /\ wf[p].pc = "done") =>
         wf[p].result.uploadedFiles = DocumentPaths(p)

C24_Step ==
  \A p \in Procs :
    (IngestOf(p) /\ ~PastJoin(p) /\ PastJoin(p)') =>
      /\ wf[p].pc = "awaitUploads"
      /\ PendingUploads(p) = {}
      /\ wf[p].uploadedFiles = DocumentPaths(p)
      /\ CountEvents(p, "putUploads")' = DocumentCount(p) + 1
      /\ ~HasEvent(p, "createBatch")' /\ ~HasEvent(p, "upsert")'

\* C24: an Ingest issues the manifest upload, and after it the batch
\* creation and the upserts, only when every document upload it issued has
\* been answered successfully; uploadedFiles then holds the stored path of
\* each document entry in archive order, in whatever order the answers came.
C24_JoinBeforeManifest == []C24_State /\ [][C24_Step]_vars

\* C24 witness: one Ingest of two documents returned uploadedFiles in
\* archive order while in another the second upload was answered before the
\* first.
C24_Witness ==
  \E p, q \in Procs :
    /\ IngestOf(p) /\ wf[p].pc = "done" /\ DocumentCount(p) = 2
    /\ wf[p].result.uploadedFiles = DocumentPaths(p)
    /\ IngestOf(q) /\ wf[q].pc = "awaitUploads" /\ DocumentCount(q) = 2
    /\ wf[q].uploadedFiles[1] = Undefined
    /\ wf[q].uploadedFiles[2] # Undefined

(***************************************************************************)
(* Ingest: rows reference the batch.                                       *)
(***************************************************************************)

\* The position of the first occurrence of an event in the history of p
\* (0 when it did not occur).
FirstEvent(p, e) ==
  IF HasEvent(p, e)
    THEN CHOOSE i \in 1..Len(wf[p].events) :
           /\ wf[p].events[i] = e
           /\ \A j \in 1..(i - 1) : wf[p].events[j] # e
    ELSE 0

BatchExists(id) == \E b \in uploads : b.id = id

AllCarry(entries, batchId) ==
  \A i \in 1..Len(entries) : entries[i].batch_id = batchId

C25_State ==
  /\ \A r \in templates : BatchExists(r.batch_id)
  /\ \A p \in Procs :
       /\ (IngestOf(p) /\ HasEvent(p, "upsert")) =>
            /\ "createBatch" \notin wf[p].faults
            /\ FirstEvent(p, "createBatch") \in 1..(FirstEvent(p, "upsert") - 1)
       /\ (IngestOf(p) /\ wf[p].pc = "upsert") =>
            /\ BatchExists(wf[p].batchId)
            /\ AllCarry(wf[p].csvRows, wf[p].batchId)
            /\ AllCarry(wf[p].registryEntries, wf[p].batchId)
       /\ (IngestOf(p) /\ wf[p].pc = "done") =>
            /\ BatchExists(wf[p].result.batchId)
            /\ AllCarry(wf[p].result.registryEntries, wf[p].result.batchId)

C25_Step ==
  \A p \in Procs :
    (IngestOf(p) /\ wf[p].pc = "upsert" /\ templates' # templates) =>
      \E r \in templates' :
        /\ r \notin templates
        /\ r.batch_id = wf[p].batchId
        /\ \A t \in templates' : t \notin templates => t = r

\* C25: an Ingest has its batch row (created or reused) before its first
\* upsert, every row it upserts and returns carries the batch id it
\* returns, and the batch_id of every registry row is the id of a batch row.
C25_RowsReferenceBatch == []C25_State /\ [][C25_Step]_vars

\* C25 witness: an Ingest returned two or more rows; two batch rows exist
\* and every registry row carries the id of the batch the Ingest returned.
C25_Witness ==
  \E p \in Procs :
    /\ IngestOf(p) /\ wf[p].pc = "done"
    /\ Len(wf[p].result.registryEntries) >= 2
    /\ BatchExists(wf[p].result.batchId)
    /\ \E b \in uploads : b.id # wf[p].result.batchId
    /\ Cardinality(templates) >= 2
    /\ \A r \in templates : r.batch_id = wf[p].result.batchId

(***************************************************************************)
(* Deploy: the template-type lookup.                                       *)
(***************************************************************************)

\* The Deploy of p found its entry.
EntryFound(p) == DeployOf(p) /\ wf[p].lookedUp # NullEntry

\* The entry names a template type, the platform listed its template types
\* and none of them has the name.
TemplateTypeUnmatched(p) ==
  /\ EntryFound(p)
  /\ Truthy(wf[p].lookedUp.template_type)
  /\ RequestSucceeded(wf[p], "listTemplateTypes")
  /\ FindSystemName(TemplateTypes, wf[p].lookedUp.template_type) = Null

C27_State ==
  \A p \in Procs :
    /\ (EntryFound(p) /\ Falsy(wf[p].lookedUp.template_type)) =>
         ~HasEvent(p, "listTemplateTypes")
    /\ TemplateTypeUnmatched(p) =>
         /\ wf[p].templateTypeSystemName = EmptyString
         /\ wf[p].pc = "createTemplate" =>
              wf[p].templateData.templateType = EmptyString
         /\ HasEvent(p, "createTemplate") =>
              wf[p].createRequest.templateData.templateType = EmptyString

C27_Step ==
  \A p \in Procs :
    (~TemplateTypeUnmatched(p) /\ TemplateTypeUnmatched(p)') =>
      /\ wf[p].pc = "templateType"
      /\ IF Truthy(wf[p].template.data_context)
           THEN wf'[p].pc = "contextType"
           ELSE wf'[p].pc = "failed" /\ wf'[p].error = "ValidationError"

\* C27: a Deploy whose entry names a template type that is not among the
\* template types the platform lists goes on, and the createTemplate request
\* it sends has the empty template type; a Deploy whose entry has no
\* template type does not list the template types.
C27_UnmatchedTemplateTypeTolerated == []C27_State /\ [][C27_Step]_vars

\* C27 witness: a Deploy of an entry with an unknown template type has
\* returned after sending createTemplate with the empty template type, and
\* a Deploy of an entry without template type ended without listing.
C27_Witness ==
  \E p, q \in Procs :
    /\ TemplateTypeUnmatched(p) /\ wf[p].pc = "done"
    /\ wf[p].createRequest.templateData.templateType = EmptyString
    /\ wf[p].createRequest.templateData.contextTypeSystemName # EmptyString
    /\ EntryFound(q) /\ Falsy(wf[q].lookedUp.template_type)
    /\ Ended_(q) /\ ~HasEvent(q, "listTemplateTypes")

(***************************************************************************)
(* Deploy: failures of the platform client.                                *)
(***************************************************************************)

\* The requests a Deploy sends through the platform client.
PlatformRequests ==
  {"listTemplateTypes", "listWorkTypes", "platformUpload", "createTemplate"}

\* The errors that report a failure of the platform or of the token
\* exchange.
PlatformErrors ==
  {"AuthenticationError", "PlatformError", "UploadError",
   "TemplateCreationError"}

\* C28 as stated: a Deploy in which a request of the platform client failed
\* has ended with an error that reports the failure; the failure is not
\* replaced by a default value or by an absent result.
C28_Original ==
  \A p \in Procs :
    \A e \in PlatformRequests :
      (DeployOf(p) /\ e \in wf[p].faults) =>
        /\ wf[p].pc = "failed"
        /\ wf[p].error \in PlatformErrors

(***************************************************************************)
(* Deploy: an upload answered without descriptors.                         *)
(***************************************************************************)

\* The platform answered the upload of the Deploy of p with no descriptor.
NoDescriptor(p) ==
  /\ DeployOf(p)
  /\ RequestSucceeded(wf[p], "platformUpload")
  /\ Len(wf[p].uploadResult) = 0

C29_State ==
  \A p \in Procs :
    NoDescriptor(p) =>
      /\ wf[p].pc = "failed"
      /\ wf[p].error = "UploadError"
      /\ ~HasEvent(p, "updateShareDo")
      /\ ~HasEvent(p, "createTemplate")

C29_Step ==
  \A p \in Procs :
    (~NoDescriptor(p) /\ NoDescriptor(p)') =>
      /\ wf[p].pc = "uploadDocument"
      /\ templates' = templates

\* C29: a Deploy whose platform upload is answered with zero descriptors
\* fails with UploadError; it does not write sharedo_pathid and
\* sharedo_downloadurl and does not call createTemplate.
C29_EmptyUploadResultFails == []C29_State /\ [][C29_Step]_vars

\* C29 witness: the only Deploy so far failed on an upload answered without
\* descriptors; no row has a path id or a download URL.
C29_Witness ==
  \E p \in Procs :
    /\ NoDescriptor(p) /\ wf[p].pc = "failed" /\ wf[p].error = "UploadError"
    /\ CountEvents(p, "platformUpload") = 1
    /\ \A q \in Procs \ {p} : ~DeployOf(q)
    /\ \E r \in templates : r.docid = wf[p].docid
    /\ \A r \in templates :
         Falsy(r.sharedo_pathid) /\ Falsy(r.sharedo_downloadurl)

(***************************************************************************)
(* Deploy: the order of a successful call and what it sends.               *)
(***************************************************************************)

DeployReturned(p) == DeployOf(p) /\ wf[p].pc = "done"

\* The pack documents of the createTemplate request the Deploy of p sent.
PackDocuments(p) == wf[p].createRequest.templateData.packDocuments

C30_State ==
  \A p \in Procs :
    DeployReturned(p) =>
      /\ \A e \in {"platformUpload", "updateShareDo", "createTemplate"} :
           CountEvents(p, e) = 1 /\ e \notin wf[p].faults
      /\ FirstEvent(p, "platformUpload") < FirstEvent(p, "updateShareDo")
      /\ FirstEvent(p, "updateShareDo") < FirstEvent(p, "createTemplate")
      /\ wf[p].createRequest.templateSystemName = wf[p].lookedUp.system_name
      /\ wf[p].createRequest.templateData.systemName
           = wf[p].lookedUp.system_name
      /\ Len(PackDocuments(p)) = 1
      /\ PackDocuments(p)[1].isMandatory
      /\ Len(PackDocuments(p)[1].sources) = 1
      /\ PackDocuments(p)[1].sources[1].filePath = wf[p].uploadResult[1].pathId
      /\ wf[p].createResponse.status \in 200..299
      /\ wf[p].result = wf[p].createResponse.body
      /\ wf[p].result.id = wf[p].createResponse.body.id

C30_Step ==
  \A p \in Procs :
    (DeployOf(p) /\ ~HasEvent(p, "updateShareDo")
       /\ RequestSucceeded(wf'[p], "updateShareDo")) =>
      /\ wf[p].pc = "updateShareDo"
      /\ \E r \in templates' : r.docid = wf[p].docid
      /\ \A r \in templates' :
           r.docid = wf[p].docid =>
             /\ r.sharedo_pathid = wf[p].uploadResult[1].pathId
             /\ r.sharedo_downloadurl = wf[p].uploadResult[1].downloadUrl
      /\ wf'[p].pc = "createTemplate"
      /\ wf'[p].templateData.packDocuments[1].sources[1].filePath
           = wf[p].uploadResult[1].pathId

\* C30: a Deploy that returns has uploaded to the platform, then written
\* the pathId and downloadUrl of the first descriptor of the answer to the
\* registry row, then called createTemplate; the request is keyed by the
\* system_name of the entry and has one mandatory pack document with one
\* source whose filePath is the path id the Deploy wrote; the Deploy returns
\* what createTemplate answered, its id included.
C30_DeployOrderAndPayload == []C30_State /\ [][C30_Step]_vars

\* C30 witness: a Deploy returned the id t2 after an upload answered with two
\* descriptors; the row has the path id and the URL of the first of them.
C30_Witness ==
  \E p \in Procs :
    /\ DeployReturned(p)
    /\ wf[p].uploadResult = <<Descriptor2, Descriptor1>>
    /\ wf[p].result.id = <<"t", "2">>
    /\ PackDocuments(p)[1].sources[1].filePath = Descriptor2.pathId
    /\ \E r \in templates :
         /\ r.docid = wf[p].docid
         /\ r.system_name = wf[p].createRequest.templateSystemName
         /\ r.sharedo_pathid = Descriptor2.pathId
         /\ r.sharedo_downloadurl = Descriptor2.downloadUrl

(***************************************************************************)
(* No request is repeated after it failed.                                 *)
(***************************************************************************)

\* The requests a workflow call issues, by the name they have in the
\* history of the call.
Requests ==
  {"lookup", "putUploads", "createBatch", "upsert", "getUploads", "convert",
   "putConversions", "updateConvertedPath", "listTemplateTypes",
   "listWorkTypes", "getConversions", "platformUpload", "updateShareDo",
   "createTemplate"}

\* How often a call may issue a request when nothing is repeated.
IssuedAtMost(p, e) ==
  IF IngestOf(p) /\ e = "putUploads" THEN DocumentCount(p) + 1
  ELSE IF IngestOf(p) /\ e = "upsert" /\ HasCsvEntry(wf[p].archive)
    THEN Len(ValidKeys(ManifestRowsOf(p)))
  ELSE 1

C31_State ==
  \A p \in Procs :
    /\ \A i \in 1..Len(wf[p].events) : wf[p].events[i] \in Requests
    /\ wf[p].faults \subseteq Requests
    /\ \A e \in Requests :
         /\ CountEvents(p, e) <= IssuedAtMost(p, e)
         /\ e \in wf[p].faults => HasEvent(p, e)
         /\ (e \in wf[p].faults /\ e # "listTemplateTypes") =>
              wf[p].pc = "failed"

C31_Step ==
  \A p \in Procs :
    \A e \in Requests :
      (e \in wf[p].faults /\ wf'[p].opid = wf[p].opid) =>
        CountEvents(p, e)' = CountEvents(p, e)

SameName(a, b) == toLowerCase(a) = toLowerCase(b)

\* The positions of the work types of the listing that have the name, and
\* the positions <<i, j>> of the derived types that have it.
TopMatches == {i \in 1..Len(listing) : SameName(listing[i].name, queryName)}
DerivedMatches ==
  {ij \in (1..MaxWorkTypes) \X (1..MaxDerived) :
     /\ ij[1] <= Len(listing)
     /\ "derivedTypes" \in DOMAIN listing[ij[1]]
     /\ ij[2] <= Len(listing[ij[1]].derivedTypes)
     /\ SameName(listing[ij[1]].derivedTypes[ij[2]].name, queryName)}

\* <<i, j>> comes before <<k, l>> in list order.
ComesBefore(ij, kl) == ij[1] < kl[1] \/ (ij[1] = kl[1] /\ ij[2] <= kl[2])

\* C32: the context-type lookup answers the system name of the first work
\* type of the listing whose name is the argument up to case; when no work
\* type has the name, the system name of the first derived type that has
\* it, the work types taken in list order and only their own derived types
\* looked at; null when nothing has the name.
C32_TopLevelBeforeDerived ==
  resolved # NotResolved =>
    IF TopMatches # {}
      THEN \E i \in TopMatches :
             /\ \A k \in TopMatches : i <= k
             /\ resolved = SystemNameAt(<<i>>)
    ELSE IF DerivedMatches # {}
      THEN \E ij \in DerivedMatches :
             /\ \A kl \in DerivedMatches : ComesBefore(ij, kl)
             /\ resolved = SystemNameAt(ij)
    ELSE resolved = Null

\* C32 witness: the second work type has the name in another case and a
\* derived type of the first work type has it too; the lookup answered the
\* second work type.
C32_Witness ==
  /\ resolved = SystemNameAt(<<2>>)
  /\ TopMatches = {2}
  /\ <<1, 1>> \in DerivedMatches
  /\ listing[2].name # queryName

(***************************************************************************)
(* The existing path of the patcher.                                       *)
(***************************************************************************)

Whitespace == {Xml.indent, Xml.newline}

\* The position of the last token of the last property of the content.
LastPropertyEnd(content) ==
  CHOOSE j \in 1..Len(content) :
    /\ content[j] = Xml.propertyClose
    /\ \A k \in (j + 1)..Len(content) : content[k] # Xml.propertyClose

\* C33: when the container that is patched already has the
\* custom-properties part, the part has exactly one property more
\* afterwards; the new property is the last one, holds the template
\* identifier, has the pid that is the largest pid before plus one (2 when
\* there was no pid), and ends immediately before the closing tag of the
\* properties root with only white space between them; and the properties
\* that were there are what they were, in their order.
C33_AppendsBeforeClosingTag ==
  (getEntry(before, Part.customXml) /\ Patched) =>
    LET was == CustomProperties(before)
        is == CustomProperties(zip)
        content == zip[Part.customXml]
        close == IndexOf(content, Xml.propertiesClose)
    IN /\ Len(is) = Len(was) + 1
       /\ \A k \in 1..Len(was) : is[k] = was[k]
       /\ is[Len(is)].name = Xml.propertyName
       /\ is[Len(is)].value = Interpolate(patchIds[Len(patchIds)])
       /\ is[Len(is)].pid = IF PidsOf(before) = {} THEN FirstPid
                                                  ELSE MaxOf(PidsOf(before)) + 1
       /\ close # 0
       /\ LastPropertyEnd(content) < close
       /\ \A k \in (LastPropertyEnd(content) + 1)..(close - 1) : content[k] \in Whitespace
       /\ IndexOf(before[Part.customXml], Xml.propertiesClose)
            = close - (Len(content) - Len(before[Part.customXml]))

\* C33 witness: a container whose custom-properties part held pids 5 and 2,
\* in that order, was patched once: the third property has pid 6 and the
\* first two are the ones that were there.
C33_Witness ==
  /\ original = WithCustomXml(<<5, 2>>)
  /\ Len(patchIds) = 1
  /\ Len(CustomProperties(zip)) = 3
  /\ CustomProperties(zip)[3].pid = 6
  /\ CustomProperties(zip)[3].value = Interpolate(patchIds[1])
  /\ CustomProperties(zip)[1].pid = 5
  /\ CustomProperties(zip)[2].pid = 2

(***************************************************************************)
(* The new path of the patcher.                                            *)
(***************************************************************************)

\* How many tokens of the content are in the set.
CountOf(content, toks) == Cardinality({i \in 1..Len(content) : content[i] \in toks})

\* The relationships of a manifest, in the order they are written.
RelationshipsOf(content) ==
  LET starts == Ascending({i \in 1..Len(content) : content[i] = Xml.relationshipOpen})
  IN [k \in 1..Len(starts) |->
        [rid |-> content[starts[k] + 1].n, type |-> content[starts[k] + 2]]]

ToCustomPart(rels) == {k \in 1..Len(rels) : rels[k].type = Xml.customRelType}

\* C34: when the container that is patched has no custom-properties part,
\* the result has the part with exactly one property, whose pid is 2; its
\* content-type manifest exists and holds the registration of the part
\* exactly once, inside the root; its top-level relationship manifest
\* exists and holds exactly one relationship to the part, inside the root,
\* whose id no other relationship of the manifest has; and the
\* relationships and registrations that were there are still there.
C34_NewPartRegisteredOnce ==
  (~getEntry(before, Part.customXml) /\ Patched) =>
    /\ getEntry(zip, Part.customXml)
    /\ Len(CustomProperties(zip)) = 1
    /\ CustomProperties(zip)[1].pid = 2
    /\ CustomProperties(zip)[1].value = Interpolate(patchIds[Len(patchIds)])
    /\ Registered(zip)
    /\ CountOf(zip[Part.contentTypes], {Xml.customOverride}) = 1
    /\ Related(zip)
    /\ LET rels == RelationshipsOf(zip[Part.rels])
       IN /\ Cardinality(ToCustomPart(rels)) = 1
          /\ \A k \in ToCustomPart(rels) :
               \A j \in 1..Len(rels) : j # k => rels[j].rid # rels[k].rid
    /\ getEntry(before, Part.rels) =>
         LET was == RelationshipsOf(before[Part.rels])
             is == RelationshipsOf(zip[Part.rels])
         IN \A k \in 1..Len(was) : is[k] = was[k]
    /\ getEntry(before, Part.contentTypes) =>
         \A i \in 1..Len(before[Part.contentTypes]) :
           before[Part.contentTypes][i] \in
             {zip[Part.contentTypes][j] : j \in 1..Len(zip[Part.contentTypes])}

\* C34 witness: a container whose relationship manifest used rId7 and
\* rId1 and whose content-type manifest did not know the part was patched:
\* the new relationship has rId8 and the registration was added.
C34_Witness ==
  /\ before = SparseRelsContainer
  /\ Len(patchIds) = 1
  /\ LET rels == RelationshipsOf(zip[Part.rels])
     IN /\ Len(rels) = 3
        /\ rels[3] = [rid |-> 8, type |-> Xml.customRelType]
  /\ CountOf(zip[Part.contentTypes], {Xml.customOverride}) = 1
  /\ CountOf(before[Part.contentTypes], {Xml.customOverride}) = 0

\* The other case of C34: no manifest at all, and both were written.
C34_SynthesizedWitness ==
  /\ before = OnlyDocument
  /\ Len(patchIds) = 1
  /\ zip[Part.contentTypes] = MinimalContentTypes
  /\ zip[Part.rels] = MinimalRels

(***************************************************************************)
(* The route handlers and the pools of their services.                     *)
(***************************************************************************)

Replied(p) == handler[p].pc = "replied"

\* Process p answered a request for which it had constructed a service.
AnsweredWithService(p) == Replied(p) /\ handler[p].pool # 0

\* C35: when a handler that constructed a service has answered, whether
\* the workflow returned or threw, the pool of that service is closed.
C35_Original ==
  \A p \in Procs :
    AnsweredWithService(p) => servicePools[handler[p].pool] = "closed"

\* The status the deploy route is to answer with: 400 for a body that
\* lacks a field and for a createTemplate that the platform answered with
\* 400, 404 for a docid without a registry row, 500 for any other failure.
DeployStatus(h) ==
  IF LacksField(h.route, h.docid, h.templateFolder) THEN 400
  ELSE IF h.thrown = NotThrown THEN 200
  ELSE IF h.thrown.kind = "createTemplate" /\ h.thrown.status = 400 THEN 400
  ELSE IF h.thrown.kind = "noRow" THEN 404
  ELSE 500

\* C36: a deploy route answers 404 exactly when the docid has no registry
\* row, 400 exactly when the body lacks docid or templateFolder or the
\* platform answered createTemplate with 400, and 500 for every other
\* failure, whatever the characters of the docid and of the other values
\* quoted in the message.
C36_Original ==
  \A p \in Procs :
    (Replied(p) /\ handler[p].route \in DeployRoutes) =>
      handler[p].status = DeployStatus(handler[p])

(***************************************************************************)
(* Deploy and the blob store.                                              *)
(***************************************************************************)

\* The step is taken by a Deploy.
DeployStep == \E p \in Procs : wf'[p] # wf[p] /\ wf'[p].op = "deploy"

\* Process p holds the container it uploads to the platform.
HoldsPatched(p) ==
  DeployOf(p) /\ wf[p].pc \in {"uploadDocument", "updateShareDo", "createTemplate"}

\* No step of a Deploy changes the blob store.
C37_Step == DeployStep => storage' = storage

\* The container a Deploy uploads is the stored artifact with one property
\* more, and that is the only property the patcher ever added to it.
C37_State ==
  \A p \in Procs :
    HoldsPatched(p) =>
      LET stored == storage[<<"conversions", wf[p].template.converted_file_path>>]
      IN /\ wf[p].modifiedFileBuffer =
              addCustomPropertyToDocx(stored, wf[p].template.system_name)
         /\ TemplateIdsOf(wf[p].modifiedFileBuffer) = <<wf[p].template.system_name>>
         /\ TemplateIdsOf(stored) = <<>>

\* C37: no step of a Deploy writes to the blob store, so every object,
\* the converted artifact included, is after a Deploy what it was before;
\* and the container that any Deploy uploads, a repeated Deploy of the same
\* docid included, carries exactly one property added by the patcher.
C37_DeployLeavesStoreAlone == []C37_State /\ [][C37_Step]_vars

\* C37 witness: a Deploy of a docid has returned, and a second Deploy of
\* the same docid holds the container it uploads, with one property.
C37_Witness ==
  \E p, q \in Procs :
    /\ p # q
    /\ DeployReturned(q)
    /\ HoldsPatched(p)
    /\ wf[p].docid = wf[q].docid
    /\ wf[p].startedAt > wf[q].startedAt
    /\ Len(TemplateIdsOf(wf[p].modifiedFileBuffer)) = 1

(***************************************************************************)
(* The paths of converted artifacts.                                       *)
(***************************************************************************)

IsConverted(r) == Truthy(r.converted_file_path)

\* Two rows with different docids never name the same converted artifact.
C38_State ==
  \A r1, r2 \in templates :
    (r1.docid # r2.docid /\ IsConverted(r1) /\ IsConverted(r2)) =>
      r1.converted_file_path # r2.converted_file_path

\* A step of the Convert of one docid leaves the converted artifact of
\* every row with another docid as it was.
C38_Step ==
  \A p \in Procs :
    (ConvertOf(p) /\ wf'[p] # wf[p]) =>
      \A r \in templates :
        (r.docid # wf[p].docid /\ IsConverted(r)
           /\ HasObject("conversions", r.converted_file_path)) =>
          storage'[<<"conversions", r.converted_file_path>>]
            = storage[<<"conversions", r.converted_file_path>>]

UpsertDone(p) ==
  /\ IngestOf(p)
  /\ wf[p].pc = "upsert"
  /\ wf'[p].events = Append(wf[p].events, "upsert")
  /\ wf'[p].pc # "failed"

\* The docid of the manifest row that process p upserts next.
UpsertDocid(p) == ToSql(wf[p].csvRows[Len(wf[p].registryEntries) + 1].docid)

\* C39: an upsert keeps, in the row that has its docid, the id and the
\* columns converted_file_path, sharedo_pathid and sharedo_downloadurl as
\* they were, keeps every row with another docid as it was, and adds no row
\* with another docid; so an ingest that names a document again leaves its
\* conversion and its deployment recorded.
C39_UpsertKeepsDerivedColumns ==
  [][\A p \in Procs :
       UpsertDone(p) =>
         /\ \A r \in templates :
              IF r.docid = UpsertDocid(p)
                THEN \E r2 \in templates' :
                       /\ r2.docid = r.docid
                       /\ r2.id = r.id
                       /\ \A c \in DerivedCols : r2[c] = r[c]
                ELSE r \in templates'
         /\ \A r2 \in templates' :
              r2.docid # UpsertDocid(p) => r2 \in templates]_vars

\* C39 witness: a.dot was converted and deployed, and an ingest upserted its
\* row from a manifest that names it differently: the row has the new name
\* and still has the converted path, the path id and the URL that it had
\* before the upsert.
C39_Witness ==
  \E p \in Procs :
    /\ IngestOf(p)
    /\ \E i \in 1..Len(wf[p].priorRows) :
         LET prior == wf[p].priorRows[i] IN
         /\ prior.docid = aDot
         /\ Truthy(prior.converted_file_path)
         /\ Truthy(prior.sharedo_pathid)
         /\ Truthy(prior.sharedo_downloadurl)
         /\ \E r \in templates :
              /\ r.docid = aDot
              /\ r.name # prior.name
              /\ \A c \in DerivedCols : r[c] = prior[c]

====
